---- MODULE Spec2Model ----
(***************************************************************************)
(* android-parser: the graph compiler of src/android_parser.               *)
(*                                                                         *)
(* The domain model (Manifest -> Application -> components -> intent       *)
(* filters, the permission family, the device and the virtual filesystem)  *)
(* is compiled into a graph held by a collaborator sink (securicad Model): *)
(* a create pass emits one node per entity, a connect pass wires edges.    *)
(*                                                                         *)
(* Conventions                                                             *)
(*   - a Python string that the code splits on "." is a sequence of its    *)
(*     dot-separated segments; None is the empty sequence NoName;          *)
(*   - an entity is a tuple of strings naming its class and its place in   *)
(*     the domain model; None is NoEnt;                                    *)
(*   - a graph node (securicad Object) is its id, a positive integer; None *)
(*     is NoId;                                                            *)
(*   - a Python dict is a function whose domain is its key set.            *)
(*                                                                         *)
(* The asset-type catalog (parser.lang.assets) holds every asset type the  *)
(* mapping code names literally; the types derived from descriptor data    *)
(* (API_LEVEL_<n>, the trimmed permission names) are in it or not, as      *)
(* chosen by the initial state (variable lacks).                           *)
(***************************************************************************)
EXTENDS Integers, Sequences, FiniteSets, TLC

VARIABLES
    mf,        \* the descriptor's domain model (Manifest and below), fixed after construction
    lacks,     \* data-derived asset types the catalog does not know
    rejects,   \* <<source field, target field>> pairs the language rejects (InvalidAssetException)
    objs,      \* sink: the nodes created so far, objs[id] = [asset_type, name]
    assocs,    \* sink: the associations created so far, in creation order
    o2o,       \* parser.scad_id_to_scad_obj
    o2p,       \* parser.scad_id_to_python_obj
    entId,     \* entity -> its id (Base._id); an entity not in the domain has id None
    perms,     \* Manifest.scad_permission_objs: permission name -> node
    dedup,     \* Application.categories / actions / uris: table -> (name -> entity)
    flt,       \* IntentFilter.categories / actions / uris: filter -> (list -> entities)
    defs,      \* sink: <<node, defense name>> -> probability in tenths, where the parser set one
    paths,     \* FileSystem.paths: absolute path -> node (NoId when the node was not created)
    hasAttacker, \* parser.attacker is set
    plan,      \* the steps of _parse, in the order the code takes them
    pc,        \* the next step of plan
    raised,    \* the exception that ended the run, "none" while none has
    last,      \* the most recent parser call: its arguments, result and exception
    ncalls,    \* number of direct API calls made (SpecApi)
    nodeReq,   \* number of node-creation calls made to the sink
    edgeReq,   \* number of create_associaton calls made
    asked,     \* the (source, target, source field, target field) tuples create_associaton was called with
    madeFor,   \* entity -> number of times it was passed to create_object
    doc,       \* the XML document handed to collect (SpecCollect)
    col,       \* the state of collect: the directory tree, the apps' directories, the exception
    call       \* a function of the program applied to an input: its name, argument and result (SpecFn)

vars == <<mf, lacks, rejects, objs, assocs, o2o, o2p, entId, perms, dedup, flt, defs,
          paths, hasAttacker, plan, pc, raised, last, ncalls, nodeReq, edgeReq, asked, madeFor,
          doc, col, call>>

(* what Spec and SpecApi leave alone: collection is over, no function is under test *)
aux == <<doc, col, call>>
Idle == [at |-> "idle"]
InitAux == doc = Idle /\ col = Idle /\ call = Idle

-----------------------------------------------------------------------------
(* Bounds of the model *)

MaxComponents == 2
MaxUses == 2
MaxPermissions == 1
MaxApiCalls == 4

(* Program constants *)

MAX_SDK_VERSION == 30
MIN_SDK_VERSION == 28

-----------------------------------------------------------------------------
(* Values *)

NoName == <<>>
NoEnt == <<>>
NoId == 0
NoType == ""

Last(seq) == seq[Len(seq)]

Range(f) == {f[k] : k \in DOMAIN f}

Put(d, k, v) == (k :> v) @@ d

RECURSIVE Join(_)
Join(segs) ==
    IF Len(segs) = 0 THEN ""
    ELSE IF Len(segs) = 1 THEN segs[1]
    ELSE segs[1] \o "." \o Join(Tail(segs))

RECURSIVE Concat(_)
Concat(seqs) == IF Len(seqs) = 0 THEN <<>> ELSE Head(seqs) \o Concat(Tail(seqs))

SeqsUpTo(S, n) == UNION {[1..k -> S] : k \in 0..n}

Idx(i) == ToString(i)

Num(str) == CHOOSE i \in 0..99 : ToString(i) = str

Bump(count, e) == Put(count, e, IF e \in DOMAIN count THEN count[e] + 1 ELSE 1)

-----------------------------------------------------------------------------
(* The descriptor: names that occur in the manifests the model compiles *)

PermCamera == <<"android", "permission", "CAMERA">>
PermWrite == <<"com", "example", "app", "WRITE">>
PermRead == <<"com", "example", "app", "READ">>
PermissionNames == {PermCamera, PermWrite}

CatDefault == <<"android", "intent", "category", "DEFAULT">>
CatBrowsable == <<"android", "intent", "category", "BROWSABLE">>
CatLauncher == <<"android", "intent", "category", "LAUNCHER">>
ActView == <<"android", "intent", "action", "VIEW">>
ActMain == <<"android", "intent", "action", "MAIN">>

(* A string is the sequence of its dot-separated segments, None is NoName. *)
Truthy(x) == x # NoName /\ x # <<"">>

(* f"{x}" *)
Fmt(x) == IF x = NoName THEN <<"None">> ELSE x

(* a + b *)
Cat(a, b) == SubSeq(a, 1, Len(a) - 1) \o <<Last(a) \o b[1]>> \o Tail(b)

RECURSIVE CatAll(_)
CatAll(strs) == IF Len(strs) = 0 THEN <<"">> ELSE Cat(Head(strs), CatAll(Tail(strs)))

(* f"{x}" of a list of str *)
RECURSIVE Quoted(_)
Quoted(strs) ==
    IF Len(strs) = 0 THEN <<"">>
    ELSE CatAll(<<<<"'">>, Head(strs), <<"'">>,
                  IF Len(strs) > 1 THEN <<", ">> ELSE <<"">>, Quoted(Tail(strs))>>)

ListRepr(strs) == CatAll(<<<<"[">>, Quoted(strs), <<"]">>>>)

(* list(a set): the set in an iteration order *)
RECURSIVE SetToSeq(_)
SetToSeq(S) ==
    IF S = {} THEN <<>> ELSE LET x == CHOOSE y \in S : TRUE IN <<x>> \o SetToSeq(S \ {x})

(* The fields of a Data object; scheme holds the list of schemes get_uris
   iterates: none for None, one for a str, two for the list of content and file *)
DataFields(scheme, host, port, path, path_pattern, path_prefix, mime_type) ==
    [scheme |-> IF scheme = NoName THEN <<>> ELSE <<scheme>>, host |-> host, port |-> port,
     path |-> path, path_pattern |-> path_pattern, path_prefix |-> path_prefix,
     mime_type |-> mime_type]

(* Data.__ignore_hosts *)
IgnoreHosts(d) ==
    [d EXCEPT !.host = IF Truthy(@) THEN <<"*">> ELSE @,
              !.port = IF Truthy(@) THEN NoName ELSE @]

(* a __ignore_paths that keeps the paths *)
KeepPaths(d) == d

(* Data.__ignore_paths *)
IgnorePaths(d) ==
    [d EXCEPT !.path = IF Truthy(@) THEN NoName ELSE @,
              !.path_pattern = IF Truthy(@) THEN NoName ELSE @,
              !.path_prefix = IF Truthy(@) THEN NoName ELSE @]

(* not self._scheme *)
NoScheme(d) == d.scheme = <<>> \/ d.scheme = << <<"">> >>

(* Data.__post_init__ *)
DataPostInit(d) ==
    LET a == IF NoScheme(d)
             THEN IgnorePaths(IgnoreHosts(
                      [d EXCEPT !.scheme = IF Truthy(d.mime_type)
                                           THEN << <<"content">>, <<"file">> >>
                                           ELSE << <<"*">> >>]))
             ELSE d
        b == IF ~Truthy(a.host) THEN IgnorePaths(IgnoreHosts(a)) ELSE a
    IN  IF Truthy(b.port) THEN [b EXCEPT !.port = Cat(<<":">>, @)] ELSE b

(* Data.__get_paths *)
GetPaths(d) ==
    SelectSeq(<<d.path, d.path_pattern, Cat(Fmt(d.path_prefix), <<"*">>)>>, Truthy)

(* Data.get_uris: line 240 iterates the one-element list [self.__get_paths()],
   so x is the list of paths and the URI ends with its repr *)
GetUris(d) ==
    LET ext == IF Truthy(d.mime_type) THEN Cat(<<" -t ">>, d.mime_type) ELSE <<"">>
        x == GetPaths(d)
    IN  {IF scheme = <<"*">> THEN Cat(scheme, ext)
         ELSE IF d.host = <<"*">> THEN CatAll(<<scheme, <<"://">>, ext>>)
         ELSE CatAll(<<scheme, <<"://">>, Fmt(d.host),
                       IF Truthy(d.port) THEN d.port ELSE <<"">>, <<"/">>,
                       IF Len(x) > 0 THEN ListRepr(x) ELSE <<"">>, ext>>) :
         scheme \in Range(d.scheme)}

(* IntentFilter.__create_uris: the URIs of the data tags and the deep links,
   the products of the schemes, hosts, ports and URIs of the tags *)
CreateUris(data) ==
    LET tags == 1..Len(data)
        own == UNION {GetUris(data[i]) : i \in tags}
        schemes == {IF Len(data[i].scheme) = 1 THEN data[i].scheme[1]
                    ELSE ListRepr(data[i].scheme) : i \in tags}
        hosts == {data[i].host : i \in {j \in tags : Truthy(data[j].host)}}
        ports == {data[i].port : i \in {j \in tags : Truthy(data[j].port)}}
        mime_types == {data[i].mime_type : i \in {j \in tags : Truthy(data[j].mime_type)}}
        links == {CatAll(<<c[1], <<"://">>, c[2], c[3], <<"/">>, c[4]>>) :
                     c \in schemes \X hosts \X ports \X {u \in own : Truthy(u)}}
        typed == IF mime_types = {} THEN links
                 ELSE {CatAll(<<c[1], <<" -t ">>, c[2]>>) : c \in links \X mime_types}
    IN  SetToSeq(own \cup typed)

(* the <data> tags compiled: android:scheme="http" android:host="example.com",
   and one without attributes *)
AttribsWeb == [scheme |-> <<"http">>, host |-> <<"example", "com">>]
AttribsAny == [scheme |-> NoName, host |-> NoName]

(* IntentFilter.from_xml, lines 356-369: the host is read from the attribute scheme *)
DataFromXml(attribs) ==
    DataPostInit(DataFields(attribs.scheme, attribs.scheme, NoName, NoName, NoName, NoName,
                            NoName))

(* An <intent-filter> as IntentFilter.from_xml and __post_init__ leave it: its
   categories and actions in document order, its data tags, and the URIs
   derived from them. *)
Filter(categories, actions, tags) ==
    [categories |-> categories, actions |-> actions,
     uris |-> CreateUris([i \in 1..Len(tags) |-> DataFromXml(tags[i])])]

FilterView == Filter(<<CatDefault>>, <<ActView>>, <<AttribsWeb>>)
FilterBrowse == Filter(<<CatDefault, CatBrowsable>>, <<ActView, ActMain>>, <<AttribsAny>>)
FilterLaunch == Filter(<<CatLauncher, CatLauncher>>, <<ActMain>>, <<>>)

(* attribs.setdefault(key, value) on the one attribute: an attribute is <<>>
   when the tag lacks it and <<its value>> otherwise *)
SetDefault(attrib, value) == IF attrib = <<>> THEN <<value>> ELSE attrib

(* attribs.get("exported") is truthy *)
ExportedTruthy(exported) == exported # <<>> /\ exported[1]

(* the exported attribute as <Kind>.from_xml leaves it: Receiver tests `not
   attribs.get("exported")`, Service tests `attribs.get("exported") == None`,
   Activity and Provider leave the attribute alone *)
ExportedFromXml(kind, exported, has_filters) ==
    CASE kind = "Receiver" ->
            IF has_filters /\ ~ExportedTruthy(exported) THEN <<TRUE>>
            ELSE SetDefault(exported, FALSE)
      [] kind = "Service" ->
            IF has_filters /\ exported = <<>> THEN <<TRUE>>
            ELSE SetDefault(exported, FALSE)
      [] OTHER -> exported

(* BaseComponent.__post_init__ after from_xml: the component's exported *)
ComponentExported(kind, exported, has_filters) ==
    SetDefault(ExportedFromXml(kind, exported, has_filters), FALSE)[1]

(* A component tag as <Kind>.from_xml and BaseComponent.__post_init__ leave it:
   enabled, exported and isolatedProcess hold their setdefault values unless
   the tag gives the attribute; foreground_service_types is the attribute
   foregroundServiceType split at "|", the one empty token when it is absent;
   read_permission and write_permission are the attributes readPermission and
   writePermission, None when absent. *)
Component(kind, name, permission, process, filters, pathPerms) ==
    [kind |-> kind, name |-> name, permission |-> permission, process |-> process,
     intent_filters |-> filters, path_permissions |-> pathPerms,
     enabled |-> TRUE, exported |-> ComponentExported(kind, <<>>, Len(filters) > 0),
     isolatedProcess |-> FALSE,
     foreground_service_types |-> <<"">>,
     read_permission |-> NoName, write_permission |-> NoName]

(* android:exported="true" *)
ActivityMain ==
    [Component("Activity", <<"com", "example", "app", "Main">>, NoName, NoName,
               <<FilterView>>, <<>>) EXCEPT !.exported = TRUE]
(* android:process=":worker" android:isolatedProcess="true"
   android:foregroundServiceType="camera|dataSync" *)
ServiceSync ==
    [Component("Service", <<"com", "example", "app", "Sync">>, PermCamera, <<":worker">>,
               <<FilterBrowse>>, <<>>) EXCEPT !.isolatedProcess = TRUE,
                                              !.foreground_service_types = <<"camera", "dataSync">>]
(* android:readPermission="com.example.app.READ" *)
ProviderData ==
    [Component("Provider", <<"com", "example", "app", "Data">>, PermWrite, NoName,
               <<>>, <<[read |-> PermCamera, write |-> PermWrite]>>)
        EXCEPT !.read_permission = PermRead]
(* android:enabled="false" *)
ReceiverBoot ==
    [Component("Receiver", <<"com", "example", "app", "Boot">>, NoName, NoName,
               <<FilterLaunch, FilterView>>, <<>>) EXCEPT !.enabled = FALSE]
ComponentTags == {ActivityMain, ServiceSync, ProviderData, ReceiverBoot}

OfKind(tags, kind) == SelectSeq(tags, LAMBDA c : c.kind = kind)

(* Manifest.from_xml: the lists the constructors receive for a descriptor with
   the given tags; Application.from_xml files the components by kind. *)
ManifestOf(appName, levels, permissions, uses, containers, tags) ==
    [app_name |-> appName, api_levels |-> levels, permissions |-> permissions,
     uses_permissions |-> uses, permission_groups |-> containers[1],
     permission_trees |-> containers[2],
     providers |-> OfKind(tags, "Provider"), services |-> OfKind(tags, "Service"),
     receivers |-> OfKind(tags, "Receiver"), activities |-> OfKind(tags, "Activity")]

NoManifest == ManifestOf(NoName, <<>>, <<>>, <<>>, << <<>>, <<>> >>, <<>>)

(* Application.components *)
Components(m) == m.providers \o m.services \o m.activities \o m.receivers

-----------------------------------------------------------------------------
(* Entities of the domain model *)

SystemAppNames == <<"Dialer", "Email", "Calendar", "Camera", "Browser", "MediaStore">>
ExternalTopDirs ==
    <<"Alarms", "Android", "DCIM", "Download", "Movies", "Music", "Notifications", "Pictures">>
AppDirs == <<"cache", "files", "databases", "shared_prefs">>
(* the apps collect gives storage to, in call order *)
StorageApps == SystemAppNames \o <<"MaliciousApp">>

IntRoot == <<"Directory", "int">>
ExtRoot == <<"Directory", "ext">>
IntDataDir == <<"Directory", "int", "data", "data">>
SharedStorageEnt == <<"SharedStorage">>
VolumeEnt(vol) == <<"VolumeStorage", vol>>
DeviceEnt == <<"Device">>
SystemAppEnt(n) == <<"SystemApp", n>>
MaliciousAppEnt == <<"MaliciousApp">>
ManifestEnt == <<"Manifest">>
ApplicationEnt == <<"Application">>
IntentEnt == <<"Intent">>
ContentResolverEnt(owner) == <<"ContentResolver">> \o owner
UIDEnt(owner) == <<"UID">> \o owner
APILevelEnt(n, owner) == <<"APILevel", ToString(n)>> \o owner
PermissionEnt(i) == <<"Permission", Idx(i)>>
UsesPermissionEnt(i) == <<"UsesPermission", Idx(i)>>
ComponentEnt(c) == <<"Component", Idx(c)>>
FilterEnt(c, f) == <<"IntentFilter", Idx(c), Idx(f)>>
ItemEnt(class, c, f, k) == <<class, Idx(c), Idx(f), Idx(k)>>
PathPermissionEnt(c, k) == <<"PathPermission", Idx(c), Idx(k)>>
FstEnt(c) == <<"ForegroundServiceType", Idx(c)>>

(* Directory.sub_dirs / Directory.files, in insertion order *)
SubDirs(d) ==
    IF d = IntRoot THEN << d \o <<"data">> >>
    ELSE IF d = IntRoot \o <<"data">> THEN << d \o <<"media">>, d \o <<"data">> >>
    ELSE IF d = IntDataDir THEN [i \in 1..Len(StorageApps) |-> d \o <<StorageApps[i]>>]
    ELSE IF Len(d) = 5 /\ SubSeq(d, 1, 4) = IntDataDir
         THEN [i \in 1..Len(AppDirs) |-> d \o <<AppDirs[i]>>]
    ELSE IF d = ExtRoot THEN [i \in 1..Len(ExternalTopDirs) |-> d \o <<ExternalTopDirs[i]>>]
    ELSE IF d = ExtRoot \o <<"Android">> THEN << d \o <<"data">> >>
    ELSE <<>>

Files(d) ==
    IF Len(d) = 6 /\ SubSeq(d, 1, 4) = IntDataDir /\ d[6] = "files"
    THEN << <<"File">> \o Tail(d) \o <<"dummy.txt">> >>
    ELSE <<>>

InternalAppDirectories(app) ==
    LET d == IntDataDir \o <<app>> IN <<d>> \o SubDirs(d)

-----------------------------------------------------------------------------
(* The name and asset_type properties of the entity classes *)

(* "dummy.txt" is the one file name with a dot in it *)
FileSegments(n) == IF n = "dummy.txt" THEN <<"dummy", "txt">> ELSE <<n>>

(* f"{name}{suffix}"; a None name formats as "None" *)
Suffixed(name, suffix) ==
    IF name = NoName THEN <<"None" \o suffix>>
    ELSE [name EXCEPT ![Len(name)] = @ \o suffix]

EndsWith(name, a, b) == Len(name) >= 2 /\ name[Len(name) - 1] = a /\ Last(name) = b

(* hasattr(python_obj, "name") *)
HasName(e) == e # NoEnt /\ e[1] \notin {"CameraModule", "GPS", "Microphone", "PathPermission"}

(* hasattr(python_obj, "asset_type"): every entity class inherits the property from Base *)
HasAssetType(e) == e # NoEnt

ItemName(e) ==
    LET filter == Components(mf)[Num(e[2])].intent_filters[Num(e[3])]
        k == Num(e[4])
    IN  IF e[1] = "Category" THEN filter.categories[k]
        ELSE IF e[1] = "Action" THEN filter.actions[k]
        ELSE filter.uris[k]

RECURSIVE NameOf(_)
NameOf(e) ==
    LET class == e[1] IN
    CASE class = "Directory" ->
            IF e = IntRoot THEN <<"/">> ELSE IF e = ExtRoot THEN <<"sdcard">> ELSE <<Last(e)>>
      [] class = "File" -> FileSegments(Last(e))
      [] class = "VolumeStorage" ->
            IF e[2] = "int" THEN <<"InternalStorage">> ELSE <<"ExternalStorage">>
      [] class = "SharedStorage" -> <<"Shared Media Storage">>
      [] class = "Device" -> <<"Device">>
      [] class = "SystemApp" -> <<e[2]>>
      [] class = "MaliciousApp" -> <<"MaliciousApp">>
      [] class = "Application" -> mf.app_name
      [] class = "Intent" -> <<"Intent">>
      [] class = "ContentResolver" -> Suffixed(NameOf(Tail(e)), "-ContentResolver")
      [] class = "UID" ->
            IF e[2] = "Component" THEN Components(mf)[Num(e[3])].process ELSE NameOf(Tail(e))
      [] class = "APILevel" -> <<"API_LEVEL_" \o e[2]>>
      [] class = "Permission" -> mf.permissions[Num(e[2])]
      [] class = "UsesPermission" -> mf.uses_permissions[Num(e[2])]
      [] class = "Component" -> Components(mf)[Num(e[2])].name
      [] class = "ForegroundServiceType" ->
            Suffixed(Components(mf)[Num(e[2])].name, "-ForegroundServiceType")
      [] class = "IntentFilter" -> <<"IntentFilter">>
      [] class \in {"Category", "Action", "URI"} -> ItemName(e)
      [] OTHER -> NoName

(* parser.lang.assets: the asset types the mapping code names literally ... *)
FixedTypes ==
    {"Directory", "AppSpecificDirectory", "Document", "InternalStorage", "ExternalStorage",
     "SharedStorage", "ScopedStorage", "Device", "CameraModule", "Gps", "Microphone",
     "ContentResolver", "UID", "App", "Intent", "IntentFilter", "Activity", "Service",
     "BroadcastReceiver", "ContentProvider", "Action", "ACTION_VIEW", "Category",
     "CategoryDefault", "CategoryBrowsable", "Data", "PathPermission",
     "ForegroundServiceType", "Permission", "UsesPermission", "PermissionGroup",
     "PermissionTree", "MaliciousApp"} \cup Range(SystemAppNames)

(* ... and those derived from data, which a language version may lack *)
DerivedTypes ==
    {"API_LEVEL_" \o ToString(MAX_SDK_VERSION - 1), "API_LEVEL_" \o ToString(MAX_SDK_VERSION),
     "CAMERA"}
LackableTypes == {"API_LEVEL_" \o ToString(MAX_SDK_VERSION), "CAMERA"}

InLang(asset_type) == asset_type \in FixedTypes \cup (DerivedTypes \ lacks)

(* Permission._trim_android_permission: name.replace("android.permission.", "") *)
RECURSIVE TrimAndroidPermission(_)
TrimAndroidPermission(name) ==
    IF Len(name) >= 3 /\ name[1] = "android" /\ name[2] = "permission"
    THEN TrimAndroidPermission(SubSeq(name, 3, Len(name)))
    ELSE IF Len(name) = 0 THEN <<>>
    ELSE <<name[1]>> \o TrimAndroidPermission(Tail(name))

(* Permission._permission_in_lang *)
PermissionInLang(asset_type) == IF ~InLang(asset_type) THEN "Permission" ELSE asset_type

ComponentType(kind) ==
    CASE kind = "Activity" -> "Activity"
      [] kind = "Service" -> "Service"
      [] kind = "Receiver" -> "BroadcastReceiver"
      [] kind = "Provider" -> "ContentProvider"

CategoryType(name) ==
    IF EndsWith(name, "category", "BROWSABLE") THEN "CategoryDefault"
    ELSE IF EndsWith(name, "category", "DEFAULT") THEN "CategoryBrowsable"
    ELSE "Category"

ActionType(name) == IF EndsWith(name, "action", "VIEW") THEN "ACTION_VIEW" ELSE "Action"

(* the asset_type property; Permission's is the value its create step has just
   stored (android_classes.py line 282), the only point where it is read *)
AssetTypeOf(e) ==
    LET class == e[1] IN
    CASE class = "Directory" ->
            IF Len(e) >= 5 /\ SubSeq(e, 1, 4) = IntDataDir
            THEN "AppSpecificDirectory" ELSE "Directory"
      [] class = "File" -> "Document"
      [] class = "VolumeStorage" ->
            IF e[2] = "int" THEN "InternalStorage" ELSE "ExternalStorage"
      [] class = "SharedStorage" -> "SharedStorage"
      [] class = "Device" -> "Device"
      [] class = "CameraModule" -> "CameraModule"
      [] class = "GPS" -> "Gps"
      [] class = "Microphone" -> "Microphone"
      [] class = "SystemApp" -> e[2]
      [] class = "MaliciousApp" -> "MaliciousApp"
      [] class = "Application" -> "App"
      [] class = "Intent" -> "Intent"
      [] class = "ContentResolver" -> "ContentResolver"
      [] class = "UID" -> "UID"
      [] class = "APILevel" -> "API_LEVEL_" \o e[2]
      [] class = "Permission" -> PermissionInLang(Join(TrimAndroidPermission(NameOf(e))))
      [] class = "UsesPermission" -> "UsesPermission"
      [] class = "Component" -> ComponentType(Components(mf)[Num(e[2])].kind)
      [] class = "ForegroundServiceType" -> "ForegroundServiceType"
      [] class = "Category" -> CategoryType(NameOf(e))
      [] class = "Action" -> ActionType(NameOf(e))
      [] class = "URI" -> "Data"
      [] OTHER -> NoType

(* _path: a directory has no parent link (create_sub_dir sets none), a file has its directory *)
PathOf(e) ==
    LET root == IF e[2] = "int" THEN "" ELSE "sdcard"
        own == IF e = IntRoot THEN "" ELSE IF e = ExtRoot THEN "sdcard" ELSE Last(e)
    IN  IF e[1] = "File" THEN root \o "/" \o e[Len(e) - 1] \o "/" \o own
        ELSE root \o "/" \o own

-----------------------------------------------------------------------------
(* The parser's state as one record, so that a handler is a composition of calls *)

Cur ==
    [objs |-> objs, assocs |-> assocs, o2o |-> o2o, o2p |-> o2p, entId |-> entId,
     perms |-> perms, dedup |-> dedup, flt |-> flt, defs |-> defs, paths |-> paths,
     hasAttacker |-> hasAttacker, raised |-> raised, last |-> last,
     nodeReq |-> nodeReq, edgeReq |-> edgeReq, asked |-> asked, madeFor |-> madeFor]

Commit(s) ==
    /\ objs' = s.objs
    /\ assocs' = s.assocs
    /\ o2o' = s.o2o
    /\ o2p' = s.o2p
    /\ entId' = s.entId
    /\ perms' = s.perms
    /\ dedup' = s.dedup
    /\ flt' = s.flt
    /\ defs' = s.defs
    /\ paths' = s.paths
    /\ hasAttacker' = s.hasAttacker
    /\ raised' = s.raised
    /\ last' = s.last
    /\ nodeReq' = s.nodeReq
    /\ edgeReq' = s.edgeReq
    /\ asked' = s.asked
    /\ madeFor' = s.madeFor

NoCall ==
    [op |-> "none", python_obj |-> NoEnt, asset_type |-> NoType, name |-> NoName,
     s_obj |-> NoId, t_obj |-> NoId, s_field |-> "", t_field |-> "",
     ret |-> NoId, exc |-> "none", again |-> FALSE]

(* the parser, the sink and the ghost counters after construction *)
Empty == [x \in {} |-> NoId]

InitParser ==
    /\ objs = <<>>
    /\ assocs = <<>>
    /\ o2o = Empty
    /\ o2p = Empty
    /\ entId = Empty
    /\ perms = Empty
    /\ dedup = [categories |-> Empty, actions |-> Empty, uris |-> Empty]
    /\ defs = Empty
    /\ paths = Empty
    /\ hasAttacker = FALSE
    /\ raised = "none"
    /\ last = NoCall
    /\ ncalls = 0
    /\ nodeReq = 0
    /\ edgeReq = 0
    /\ asked = {}
    /\ madeFor = Empty
    /\ pc = 1

(* Base.id *)
IdOf(s, e) == IF e \in DOMAIN s.entId THEN s.entId[e] ELSE NoId

(* an uncaught exception leaves the call *)
Raise(s, exc) == [s EXCEPT !.raised = exc, !.last.exc = exc]

(* the call returns ret *)
Return(s, ret) == [s EXCEPT !.last.ret = ret]

-----------------------------------------------------------------------------
(* The sink (securicad Model), as the parser's calls and handlers use it *)

Edge(a, sf, b, tf) == [s |-> a, sf |-> sf, t |-> b, tf |-> tf]

HasEdge(edges, a, sf, b, tf) ==
    \E k \in DOMAIN edges : edges[k] \in {Edge(a, sf, b, tf), Edge(b, tf, a, sf)}

(* Model.create_object: InvalidAssetException for a type the language lacks *)
SinkAccepts(asset_type) == InLang(asset_type)

(* s_obj.field(s_field).connect(t_obj.field(t_field)) *)
SinkConnect(edges, a, sf, b, tf) ==
    IF <<sf, tf>> \in rejects THEN "InvalidAssetException"
    ELSE IF HasEdge(edges, a, sf, b, tf) THEN "DuplicateAssociationException"
    ELSE "ok"

-----------------------------------------------------------------------------
(* AndroidParser.create_object and AndroidParser.create_associaton *)

(* the handler of main.py 272-273 letting the exception through *)
OnInvalidAssetRaises(s) == Raise(s, "InvalidAssetException")

(* main.py 272-273: the InvalidAssetException is logged, the call returns None *)
OnInvalidAsset(s) == Return(s, NoId)

(* a registration that files the entity under the node's id without giving
   the entity that id *)
RegisterWithoutId(s, python_obj, asset_type, name) ==
    LET id == Len(s.objs) + 1
        made == [s EXCEPT !.objs = Append(@, [asset_type |-> asset_type, name |-> name]),
                          !.o2o = Put(@, id, id)]
        bound == IF python_obj # NoEnt THEN [made EXCEPT !.o2p = Put(@, id, python_obj)]
                 ELSE made
    IN  Return(bound, id)

(* main.py 265-271 *)
Register(s, python_obj, asset_type, name) ==
    LET id == Len(s.objs) + 1
        made == [s EXCEPT !.objs = Append(@, [asset_type |-> asset_type, name |-> name]),
                          !.o2o = Put(@, id, id)]
        bound == IF python_obj # NoEnt
                 THEN [made EXCEPT !.entId = Put(@, python_obj, id),
                                   !.o2p = Put(@, id, python_obj)]
                 ELSE made
    IN  Return(bound, id)

CreateObject(s, python_obj, asset_type, name) ==
    LET called == [s EXCEPT
                     !.last = [NoCall EXCEPT !.op = "create_object", !.python_obj = python_obj,
                                             !.asset_type = asset_type, !.name = name],
                     !.madeFor = IF python_obj # NoEnt THEN Bump(@, python_obj) ELSE @]
        type == IF HasAssetType(python_obj) /\ asset_type = NoType
                THEN AssetTypeOf(python_obj) ELSE asset_type
        short == IF HasName(python_obj) THEN <<Last(NameOf(python_obj))>> ELSE name
        sent == [called EXCEPT !.nodeReq = @ + 1]
    IN  IF python_obj = NoEnt /\ name = NoName THEN Return(called, NoId)
        ELSE IF ~HasAssetType(python_obj) /\ asset_type = NoType
             THEN Raise(called, "MissingAttributes")
        ELSE IF HasName(python_obj) /\ NameOf(python_obj) = NoName
             THEN Raise(called, "AttributeError")
        ELSE IF ~SinkAccepts(type) THEN OnInvalidAsset(sent)
        ELSE Register(sent, python_obj, type, short)

(* the handler of main.py 231-232 letting the exception through *)
OnDuplicateRaises(s) == Raise(s, "DuplicateAssociationException")

(* main.py 231-232: the duplicate is swallowed *)
OnDuplicate(s) == s

(* main.py 220-222: the guard that returns, any([s_obj, t_obj]) being false *)
NothingToConnect(s_obj, t_obj) == ~(s_obj # NoId \/ t_obj # NoId)

CreateAssociaton(s, s_obj, t_obj, s_field, t_field) ==
    LET called == [s EXCEPT
                     !.last = [NoCall EXCEPT !.op = "create_associaton", !.s_obj = s_obj,
                                             !.t_obj = t_obj, !.s_field = s_field,
                                             !.t_field = t_field,
                                             !.again = <<s_obj, t_obj, s_field, t_field>> \in s.asked],
                     !.edgeReq = @ + 1,
                     !.asked = @ \cup {<<s_obj, t_obj, s_field, t_field>>}]
        outcome == SinkConnect(s.assocs, s_obj, s_field, t_obj, t_field)
    IN  IF NothingToConnect(s_obj, t_obj) THEN called
        ELSE IF s_obj = t_obj THEN called
        ELSE IF s_obj = NoId \/ t_obj = NoId THEN Raise(called, "AttributeError")
        ELSE IF outcome = "DuplicateAssociationException" THEN OnDuplicate(called)
        ELSE IF outcome = "InvalidAssetException" THEN called
        ELSE [called EXCEPT !.assocs = Append(@, Edge(s_obj, s_field, t_obj, t_field))]

-----------------------------------------------------------------------------
(* Permission.create_scad_android_permission and the dedup loops of
   IntentFilter.create_scad_objects *)

(* a cache test that never finds the name *)
NeverCached(cache, name) == FALSE

(* android_classes.py 316-317: name in existing_permission_names *)
Cached(cache, name) == name \in DOMAIN cache

CreateScadAndroidPermission(s, name) ==
    LET type == PermissionInLang(Join(TrimAndroidPermission(name)))
        made == CreateObject(s, NoEnt, type, name)
        permission_obj == made.last.ret
    IN  IF name = NoName THEN s
        ELSE IF Cached(s.perms, name) THEN s
        ELSE IF made.raised # "none" THEN made
        ELSE IF permission_obj = NoId THEN Raise(made, "AttributeError")
        ELSE [made EXCEPT !.perms = Put(@, made.objs[permission_obj].name, permission_obj)]

(* a table test that never finds the name *)
NeverRegistered(table, name) == FALSE

(* intent_filter.py 435, 442, 448: <item>.name in app.<table> *)
Registered(table, name) == name \in DOMAIN table

(* one iteration of a loop of intent_filter.py 434-451 *)
Dedup(s, table, filter, k) ==
    LET item == s.flt[filter][table][k]
        name == NameOf(item)
        made == CreateObject(s, item, NoType, NoName)
    IN  IF Registered(s.dedup[table], name)
        THEN [s EXCEPT !.flt[filter][table][k] = s.dedup[table][name]]
        ELSE IF made.raised # "none" THEN made
        ELSE [made EXCEPT !.dedup[table] = Put(@, name, item)]

-----------------------------------------------------------------------------
(* The statements the handlers are made of *)

Stmt(h, op, e, te, at, nm, sf, tf, i) ==
    [h |-> h, op |-> op, e |-> e, te |-> te, at |-> at, nm |-> nm, sf |-> sf, tf |-> tf, i |-> i]

(* parser.create_object(python_obj=e) / parser.create_object(asset_type=at, python_obj=e) *)
MkCreate(h, e, at) == Stmt(h, "create", e, NoEnt, at, NoName, "", "", 0)
(* Permission.create_scad_android_permission(name=nm) *)
MkOnDemand(h, nm) == Stmt(h, "on_demand", NoEnt, NoEnt, NoType, nm, "", "", 0)
(* iteration k of a dedup loop of filter e over its list named at *)
MkDedup(h, e, at, k) == Stmt(h, "dedup", e, NoEnt, at, NoName, "", "", k)
(* parser.filesystem.paths[e.path] = scad_obj *)
MkPath(h, e) == Stmt(h, "path", e, NoEnt, NoType, NoName, "", "", 0)
(* parser.scad_id_to_scad_obj[e.id] *)
MkLookup(h, e) == Stmt(h, "lookup", e, NoEnt, NoType, NoName, "", "", 0)
(* create_associaton between the nodes looked up for e and te *)
MkAssoc(h, e, te, sf, tf) == Stmt(h, "assoc", e, te, NoType, NoName, sf, tf, 0)
(* scad_id_to_scad_obj[e.id].defense(nm).probability = i / 10 *)
MkDefense(h, e, nm, i) == Stmt(h, "defense", e, NoEnt, NoType, <<nm>>, "", "", i)
(* a statement that raises whenever it is reached *)
MkRaise(h, exc) == Stmt(h, "raise", NoEnt, NoEnt, exc, NoName, "", "", 0)
(* the statements of handler h on entity e, run as one step *)
MkHandler(h, e) == Stmt(h, "handler", e, NoEnt, NoType, NoName, "", "", 0)
(* parser.attacker = parser.model.create_attacker() *)
MkAttacker(h) == Stmt(h, "attacker", NoEnt, NoEnt, NoType, NoName, "", "", 0)

Map(f(_), seq) == [k \in 1..Len(seq) |-> f(seq[k])]

-----------------------------------------------------------------------------
(* The create handlers *)

(* a Base.create_scad_objects that creates the node itself *)
BaseCreateMakesNode(h, e) == <<MkCreate(h, e, NoType)>>

(* Base.create_scad_objects: creates nothing (android_classes.py 73-81) *)
BaseCreate(h, e) == <<>>

(* <Class>.create_scad_objects of the classes whose handler is
   super().create_scad_objects(parser); parser.create_object(python_obj=self) *)
EntityCreate(h, e) == BaseCreate(h, e) \o <<MkCreate(h, e, NoType)>>

(* Directory.create_scad_objects, File.create_scad_objects *)
RECURSIVE DirectoryCreate(_, _)
DirectoryCreate(h, d) ==
    EntityCreate(h, d)
    \o Concat([k \in 1..Len(SubDirs(d)) |-> DirectoryCreate(h, SubDirs(d)[k])])
    \o Concat([k \in 1..Len(Files(d)) |->
                 BaseCreate(h, Files(d)[k])
                 \o <<MkCreate(h, Files(d)[k], "Document"), MkPath(h, Files(d)[k])>>])
    \o <<MkPath(h, d)>>

(* FileSystem.create_scad_objects; no application has scoped storage *)
FileSystemCreate(h) ==
    DirectoryCreate(h, IntRoot) \o DirectoryCreate(h, ExtRoot)
    \o EntityCreate(h, VolumeEnt("int")) \o EntityCreate(h, VolumeEnt("ext"))
    \o EntityCreate(h, SharedStorageEnt)

(* SystemApp.create_scad_objects, MaliciousApp.create_scad_objects *)
AppCreate(h, app) ==
    EntityCreate(h, app) \o EntityCreate(h, ContentResolverEnt(app))
    \o EntityCreate(h, UIDEnt(app)) \o EntityCreate(h, APILevelEnt(MAX_SDK_VERSION, app))

(* Device.create_scad_objects *)
DeviceCreate(h) ==
    EntityCreate(h, DeviceEnt) \o EntityCreate(h, <<"CameraModule">>)
    \o EntityCreate(h, <<"GPS">>) \o EntityCreate(h, <<"Microphone">>)
    \o Concat([k \in 1..Len(SystemAppNames) |-> AppCreate(h, SystemAppEnt(SystemAppNames[k]))])

(* IntentFilter.create_scad_objects *)
FilterCreate(c, f, filter) ==
    BaseCreate("EntityCreate", FilterEnt(c, f))
    \o <<MkCreate("EntityCreate", FilterEnt(c, f), "IntentFilter")>>
    \o [k \in 1..Len(filter.categories) |-> MkDedup("FilterDedup", FilterEnt(c, f), "categories", k)]
    \o [k \in 1..Len(filter.actions) |-> MkDedup("FilterDedup", FilterEnt(c, f), "actions", k)]
    \o [k \in 1..Len(filter.uris) |-> MkDedup("FilterDedup", FilterEnt(c, f), "uris", k)]

(* PathPermission.create_scad_objects: the write permission before the read permission *)
PathPermissionCreate(c, k, pp) ==
    BaseCreate("EntityCreate", PathPermissionEnt(c, k))
    \o <<MkCreate("EntityCreate", PathPermissionEnt(c, k), "PathPermission")>>
    \o (IF pp.write # NoName THEN <<MkOnDemand("OnDemandPermission", pp.write)>> ELSE <<>>)
    \o (IF pp.read # NoName THEN <<MkOnDemand("OnDemandPermission", pp.read)>> ELSE <<>>)

(* BaseComponent.create_scad_objects *)
BaseComponentCreate(c, comp) ==
    BaseCreate("EntityCreate", ComponentEnt(c))
    \o Concat([f \in 1..Len(comp.intent_filters) |-> FilterCreate(c, f, comp.intent_filters[f])])
    \o (IF comp.permission # NoName
        THEN <<MkOnDemand("OnDemandPermission", comp.permission)>> ELSE <<>>)
    \o (IF comp.process # NoName
        THEN <<MkCreate("EntityCreate", UIDEnt(ComponentEnt(c)), NoType)>> ELSE <<>>)

(* Provider / Service / Activity / Receiver .create_scad_objects *)
ComponentCreate(c, comp) ==
    BaseComponentCreate(c, comp)
    \o (CASE comp.kind = "Provider" ->
                <<MkCreate("EntityCreate", ComponentEnt(c), NoType)>>
                \o Concat([k \in 1..Len(comp.path_permissions) |->
                             PathPermissionCreate(c, k, comp.path_permissions[k])])
          [] comp.kind = "Service" ->
                <<MkCreate("EntityCreate", ComponentEnt(c), "Service")>>
                \o EntityCreate("EntityCreate", FstEnt(c))
          [] comp.kind = "Activity" -> <<MkCreate("EntityCreate", ComponentEnt(c), "Activity")>>
          [] comp.kind = "Receiver" ->
                <<MkCreate("EntityCreate", ComponentEnt(c), "BroadcastReceiver")>>)

(* Application.create_scad_objects *)
ApplicationCreate(m) ==
    EntityCreate("EntityCreate", ApplicationEnt)
    \o EntityCreate("EntityCreate", UIDEnt(ApplicationEnt))
    \o EntityCreate("EntityCreate", ContentResolverEnt(ApplicationEnt))
    \o Concat([c \in 1..Len(Components(m)) |-> ComponentCreate(c, Components(m)[c])])
    \o EntityCreate("EntityCreate", IntentEnt)

(* Manifest.create_objects; line 249 iterates the keys of the two container
   dicts, strings, and calls create_scad_objects on the first *)
ManifestCreate(m) ==
    Concat([k \in 1..Len(m.api_levels) |->
              EntityCreate("EntityCreate", APILevelEnt(m.api_levels[k], ManifestEnt))])
    \o Concat([k \in 1..Len(m.permissions) |-> EntityCreate("EntityCreate", PermissionEnt(k))])
    \o Concat([k \in 1..Len(m.uses_permissions) |->
                 <<MkCreate("EntityCreate", UsesPermissionEnt(k), NoType),
                   MkOnDemand("OnDemandPermission", m.uses_permissions[k])>>])
    \o (IF Len(m.permission_groups) + Len(m.permission_trees) > 0
        THEN <<MkRaise("PermissionContainers", "AttributeError")>> ELSE <<>>)
    \o ApplicationCreate(m)

(* _create_scad_objects (main.py 192-199) *)
CreatePass(m) ==
    <<MkHandler("FileSystemCreate", NoEnt), MkHandler("DeviceCreate", NoEnt)>>
    \o ManifestCreate(m)
    \o <<MkAttacker("AttackerCreate"), MkHandler("MaliciousAppCreate", MaliciousAppEnt)>>

-----------------------------------------------------------------------------
(* The connect handlers *)

(* VolumeStorage.connect_scad_objects *)
VolumeConnect(h, vol) ==
    LET root == IF vol = "int" THEN IntRoot ELSE ExtRoot
        s_field == IF vol = "int" THEN "internalStorage" ELSE "externalStorage"
    IN  <<MkLookup(h, VolumeEnt(vol)),
          MkAssoc(h, VolumeEnt(vol), root, "directories", "volume"),
          MkAssoc(h, DeviceEnt, VolumeEnt(vol), s_field, "device")>>

(* Directory.connect_scad_objects *)
RECURSIVE DirectoryConnect(_, _)
DirectoryConnect(h, d) ==
    <<MkLookup(h, d)>>
    \o Concat([k \in 1..Len(SubDirs(d)) |->
                 <<MkAssoc(h, d, SubDirs(d)[k], "subDirectory", "superDirectory")>>
                 \o DirectoryConnect(h, SubDirs(d)[k])])
    \o [k \in 1..Len(Files(d)) |-> MkAssoc(h, d, Files(d)[k], "files", "directory")]

(* SharedStorage.connect_scad_objects *)
SharedStorageConnect(h) ==
    <<MkLookup(h, SharedStorageEnt),
      MkAssoc(h, SharedStorageEnt, VolumeEnt("int"), "storageVolumes", "partitions"),
      MkAssoc(h, SharedStorageEnt, VolumeEnt("ext"), "storageVolumes", "partitions")>>

(* FileSystem.connect_scad_objects; the scoped-storage loop has nothing to visit *)
FileSystemConnect(h) ==
    <<MkLookup(h, DeviceEnt), MkLookup(h, IntRoot), MkLookup(h, ExtRoot)>>
    \o VolumeConnect(h, "int") \o VolumeConnect(h, "ext")
    \o DirectoryConnect(h, IntRoot) \o DirectoryConnect(h, ExtRoot)
    \o SharedStorageConnect(h)

(* Device.connect_scad_objects up to its loop over the system apps, and the
   loop's own statement for one system app *)
DeviceConnect(h, app) ==
    IF app = NoEnt
    THEN <<MkLookup(h, DeviceEnt),
           MkAssoc(h, DeviceEnt, <<"CameraModule">>, "systemFeatures", "device"),
           MkAssoc(h, DeviceEnt, <<"GPS">>, "systemFeatures", "device"),
           MkAssoc(h, DeviceEnt, <<"Microphone">>, "systemFeatures", "device")>>
    ELSE <<MkAssoc(h, DeviceEnt, app, "apps", "device")>>

(* ContentResolver.connect_scad_objects *)
ContentResolverConnect(h, e) == <<MkAssoc(h, Tail(e), e, "resolver", "app")>>

(* UID.connect_scad_objects *)
UIDConnect(h, e) == <<MkAssoc(h, Tail(e), e, "uid", "app")>>

(* SystemApp.connect_scad_objects between its calls of other handlers *)
SystemAppConnect(h, app) ==
    LET dirs == InternalAppDirectories(app[2])
    IN  <<MkLookup(h, app)>>
        \o [k \in 1..Len(dirs) |-> MkAssoc(h, app, dirs[k], "appFolders", "app")]
        \o [k \in 1..Len(dirs) |-> MkDefense(h, dirs[k], "encrypted", 10)]

(* APILevel.connect_scad_objects: self.parent.application exists on a Manifest only *)
APILevelConnect(h, e) ==
    <<MkLookup(h, e)>>
    \o (IF SubSeq(e, 3, Len(e)) = ManifestEnt
        THEN <<MkAssoc(h, e, ApplicationEnt, "app", "androidApis")>>
        ELSE <<MkRaise(h, "AttributeError")>>)

(* BaseComponent.connect_scad_objects, then Service.connect_scad_objects; defense
   probabilities in tenths *)
ComponentConnect(c, comp) ==
    <<MkLookup("ComponentConnect", ComponentEnt(c))>>
    \o (IF comp.process # NoName
        THEN <<MkAssoc("ComponentConnect", UIDEnt(ComponentEnt(c)), ComponentEnt(c),
                       "component", "process")>>
        ELSE <<>>)
    \o <<MkDefense("ComponentConnect", ComponentEnt(c), "notEnabled",
                   IF comp.enabled THEN 0 ELSE 10),
         MkDefense("ComponentConnect", ComponentEnt(c), "notExported",
                   IF comp.exported THEN 0 ELSE 10),
         MkDefense("ComponentConnect", ComponentEnt(c), "notUsingIntentExtras", 5)>>
    \o (IF comp.kind = "Service"
        THEN <<MkAssoc("ComponentConnect", ComponentEnt(c), FstEnt(c),
                       "foregroundServiceTypes", "services"),
               MkDefense("ComponentConnect", ComponentEnt(c), "isolatedProcess",
                         IF comp.isolatedProcess THEN 10 ELSE 0)>>
        ELSE <<>>)

(* _connect_scad_objects (main.py 201-208) as far as a run gets: the API level
   of the first system app raises, so neither the remaining system apps nor the
   handlers of lines 205-208 are ever entered *)
ConnectPass(m) ==
    LET app == SystemAppEnt(SystemAppNames[1])
    IN  <<MkHandler("FileSystemConnect", NoEnt),
          MkHandler("DeviceConnect", NoEnt),
          MkHandler("DeviceConnect", app),
          MkHandler("ContentResolverConnect", ContentResolverEnt(app)),
          MkHandler("UIDConnect", UIDEnt(app)),
          MkHandler("SystemAppConnect", app),
          MkHandler("APILevelConnect", APILevelEnt(MAX_SDK_VERSION, app))>>

(* a _parse that connects the file system before the last create handler *)
ParseInterleaved(m) ==
    SubSeq(CreatePass(m), 1, Len(CreatePass(m)) - 1)
    \o <<Head(ConnectPass(m)), Last(CreatePass(m))>>
    \o Tail(ConnectPass(m))

(* _parse (main.py 164-168) *)
ParsePlan(m) == CreatePass(m) \o ConnectPass(m)

HandlerStmts(st) ==
    CASE st.h = "FileSystemCreate" -> FileSystemCreate(st.h)
      [] st.h = "DeviceCreate" -> DeviceCreate(st.h)
      [] st.h = "MaliciousAppCreate" -> AppCreate(st.h, st.e)
      [] st.h = "FileSystemConnect" -> FileSystemConnect(st.h)
      [] st.h = "DeviceConnect" -> DeviceConnect(st.h, st.e)
      [] st.h = "ContentResolverConnect" -> ContentResolverConnect(st.h, st.e)
      [] st.h = "UIDConnect" -> UIDConnect(st.h, st.e)
      [] st.h = "SystemAppConnect" -> SystemAppConnect(st.h, st.e)
      [] st.h = "APILevelConnect" -> APILevelConnect(st.h, st.e)

-----------------------------------------------------------------------------
(* Execution of statements *)

(* parser.scad_id_to_scad_obj[e.id] *)
Lookup(s, e) == IF IdOf(s, e) \in DOMAIN s.o2o THEN s ELSE Raise(s, "KeyError")

Associate(s, st) ==
    LET a == IdOf(s, st.e)
        b == IdOf(s, st.te)
    IN  IF a \notin DOMAIN s.o2o \/ b \notin DOMAIN s.o2o THEN Raise(s, "KeyError")
        ELSE CreateAssociaton(s, s.o2o[a], s.o2o[b], st.sf, st.tf)

SetDefense(s, st) ==
    IF IdOf(s, st.e) \notin DOMAIN s.o2o THEN Raise(s, "KeyError")
    ELSE [s EXCEPT !.defs = Put(@, <<s.o2o[IdOf(s, st.e)], st.nm[1]>>, st.i)]

RECURSIVE Exec(_, _)
RECURSIVE Run(_, _)
Exec(s, st) ==
    CASE st.op = "create" -> CreateObject(s, st.e, st.at, st.nm)
      [] st.op = "on_demand" -> CreateScadAndroidPermission(s, st.nm)
      [] st.op = "dedup" -> Dedup(s, st.at, st.e, st.i)
      [] st.op = "path" -> [s EXCEPT !.paths = Put(@, PathOf(st.e), IdOf(s, st.e))]
      [] st.op = "lookup" -> Lookup(s, st.e)
      [] st.op = "assoc" -> Associate(s, st)
      [] st.op = "defense" -> SetDefense(s, st)
      [] st.op = "raise" -> Raise(s, st.at)
      [] st.op = "attacker" -> [s EXCEPT !.hasAttacker = TRUE]
      [] st.op = "handler" -> Run(s, HandlerStmts(st))

(* statements run in order until one raises; the body is run as its first
   half followed by its second half *)
Run(s, stmts) ==
    IF Len(stmts) = 0 \/ s.raised # "none" THEN s
    ELSE IF Len(stmts) = 1 THEN Exec(s, stmts[1])
    ELSE LET half == Len(stmts) \div 2
         IN  Run(Run(s, SubSeq(stmts, 1, half)), SubSeq(stmts, half + 1, Len(stmts)))

-----------------------------------------------------------------------------
(* Specification Spec: _parse over the domain model of one descriptor, as the
   constructors build it (the parent links set, storage given to the system
   apps and to the malicious app) *)

AppName == <<"com", "example", "app", "App">>
(* uses-sdk with minSdkVersion = MAX_SDK_VERSION - 1 and no targetSdkVersion *)
ApiLevels == <<MAX_SDK_VERSION - 1, MAX_SDK_VERSION>>
NoContainers == << <<>>, <<>> >>
(* one <permission-group>, one <permission-tree> *)
Containers == {<< <<"com.example.app.GROUP">>, <<>> >>, << <<>>, <<"com.example.app">> >>}

(* The descriptors compiled.  Where a run ends before the application's
   components are visited (no android:name on <application>, or a permission
   container), the descriptor has none. *)
Descriptors ==
    {ManifestOf(AppName, ApiLevels, permissions, uses, NoContainers, tags) :
        permissions \in SeqsUpTo(PermissionNames, MaxPermissions),
        uses \in SeqsUpTo(PermissionNames, MaxUses),
        tags \in SeqsUpTo(ComponentTags, MaxComponents)}
    \cup {ManifestOf(NoName, ApiLevels, <<>>, <<>>, NoContainers, <<>>)}
    \cup {ManifestOf(AppName, ApiLevels, <<>>, <<>>, containers, <<>>) :
             containers \in Containers}

FilterIndex(m) ==
    UNION {{<<c, f>> : f \in 1..Len(Components(m)[c].intent_filters)} :
             c \in 1..Len(Components(m))}

(* the lists of each IntentFilter after from_xml: its own items *)
InitialFilters(m) ==
    [e \in {FilterEnt(p[1], p[2]) : p \in FilterIndex(m)} |->
        LET c == Num(e[2])
            f == Num(e[3])
            filter == Components(m)[c].intent_filters[f]
        IN  [categories |-> [k \in 1..Len(filter.categories) |-> ItemEnt("Category", c, f, k)],
             actions |-> [k \in 1..Len(filter.actions) |-> ItemEnt("Action", c, f, k)],
             uris |-> [k \in 1..Len(filter.uris) |-> ItemEnt("URI", c, f, k)]]]

Init ==
    /\ InitParser
    /\ InitAux
    /\ mf \in Descriptors
    /\ lacks \in {{}, LackableTypes}
    /\ rejects = {}
    /\ flt = InitialFilters(mf)
    /\ plan = ParsePlan(mf)

(* the run stands before a statement of handler h *)
Ready(h) == raised = "none" /\ pc <= Len(plan) /\ plan[pc].h = h

(* the statement is executed; an exception ends the run where it stands *)
Take ==
    /\ Commit(Exec(Cur, plan[pc]))
    /\ pc' = IF raised' = "none" THEN pc + 1 ELSE pc
    /\ UNCHANGED <<mf, lacks, rejects, plan, ncalls>>
    /\ UNCHANGED aux

FileSystemCreateStep == Ready("FileSystemCreate") /\ Take
DeviceCreateStep == Ready("DeviceCreate") /\ Take
EntityCreateStep == Ready("EntityCreate") /\ Take
OnDemandPermissionStep == Ready("OnDemandPermission") /\ Take
FilterDedupStep == Ready("FilterDedup") /\ Take
PermissionContainersStep == Ready("PermissionContainers") /\ Take
AttackerCreateStep == Ready("AttackerCreate") /\ Take
MaliciousAppCreateStep == Ready("MaliciousAppCreate") /\ Take
FileSystemConnectStep == Ready("FileSystemConnect") /\ Take
DeviceConnectStep == Ready("DeviceConnect") /\ Take
ContentResolverConnectStep == Ready("ContentResolverConnect") /\ Take
UIDConnectStep == Ready("UIDConnect") /\ Take
SystemAppConnectStep == Ready("SystemAppConnect") /\ Take
APILevelConnectStep == Ready("APILevelConnect") /\ Take

Next ==
    \/ FileSystemCreateStep
    \/ DeviceCreateStep
    \/ EntityCreateStep
    \/ OnDemandPermissionStep
    \/ FilterDedupStep
    \/ PermissionContainersStep
    \/ AttackerCreateStep
    \/ MaliciousAppCreateStep
    \/ FileSystemConnectStep
    \/ DeviceConnectStep
    \/ ContentResolverConnectStep
    \/ UIDConnectStep
    \/ SystemAppConnectStep
    \/ APILevelConnectStep

Spec == Init /\ [][Next]_vars

-----------------------------------------------------------------------------
(* Specification SpecApi: a client calling the parser's two graph operations
   directly, with arguments of its choice, on an empty graph.  An exception a
   call raises reaches the client, which may go on calling. *)

ApiEntities == {DeviceEnt, <<"CameraModule">>, APILevelEnt(MAX_SDK_VERSION, SystemAppEnt("Dialer"))}
ApiTypes == {NoType, "Widget"}
ApiNames == {NoName, <<"camera">>}
ApiFieldPairs == {<<"apps", "device">>, <<"files", "device">>}

InitApi ==
    /\ InitParser
    /\ InitAux
    /\ mf = NoManifest
    /\ flt = Empty
    /\ plan = <<>>
    /\ lacks \in {{}, LackableTypes}
    /\ rejects \in SUBSET {<<"files", "device">>}

Caught(s) == [s EXCEPT !.raised = "none"]

ApiCreateObject ==
    \E python_obj \in ApiEntities \cup {NoEnt}, asset_type \in ApiTypes, name \in ApiNames :
        /\ ncalls < MaxApiCalls
        /\ Commit(Caught(CreateObject(Cur, python_obj, asset_type, name)))
        /\ ncalls' = ncalls + 1
        /\ UNCHANGED <<mf, lacks, rejects, plan, pc>>
        /\ UNCHANGED aux

ApiCreateAssociaton ==
    \E s_obj \in 0..Len(objs), t_obj \in 0..Len(objs), fields \in ApiFieldPairs :
        /\ ncalls < MaxApiCalls
        /\ Commit(Caught(CreateAssociaton(Cur, s_obj, t_obj, fields[1], fields[2])))
        /\ ncalls' = ncalls + 1
        /\ UNCHANGED <<mf, lacks, rejects, plan, pc>>
        /\ UNCHANGED aux

NextApi == ApiCreateObject \/ ApiCreateAssociaton

SpecApi == InitApi /\ [][NextApi]_vars

-----------------------------------------------------------------------------
(* Properties of create_object and create_associaton, under SpecApi *)

(* the call c reaches the connect of main.py 230 with two different nodes *)
DistinctNodes(c) ==
    c.op = "create_associaton" /\ c.s_obj # NoId /\ c.t_obj # NoId /\ c.s_obj # c.t_obj

(* the edges of the graph between the nodes and fields of call c *)
EdgeCount(edges, c) ==
    Cardinality({k \in DOMAIN edges :
                   edges[k] \in {Edge(c.s_obj, c.s_field, c.t_obj, c.t_field),
                                 Edge(c.t_obj, c.t_field, c.s_obj, c.s_field)}})

(* the asset type create_object hands to the sink for call c (main.py 260-261) *)
TypeSent(c) ==
    IF HasAssetType(c.python_obj) /\ c.asset_type = NoType
    THEN AssetTypeOf(c.python_obj) ELSE c.asset_type

(* the call c is a create_object that reaches the sink with a type the
   catalog does not know *)
UnknownType(c) ==
    /\ c.op = "create_object"
    /\ c.python_obj # NoEnt \/ c.name # NoName
    /\ TypeSent(c) # NoType
    /\ ~(HasName(c.python_obj) /\ NameOf(c.python_obj) = NoName)
    /\ ~InLang(TypeSent(c))

(* C1: a create_associaton call with a null node argument (one or both) or
   with the same node twice creates no edge, raises nothing and leaves the
   graph as it was. *)
C1_NullOrSameIsNoOp ==
    [][(/\ ncalls' = ncalls + 1
        /\ last'.op = "create_associaton"
        /\ last'.s_obj = NoId \/ last'.t_obj = NoId \/ last'.s_obj = last'.t_obj)
       => (last'.exc = "none" /\ assocs' = assocs /\ objs' = objs)]_vars

(* C4, as stated: a repeated create_associaton call on two distinct nodes
   leaves exactly one such edge and does not raise, whatever the field pair. *)
C4_RepeatLeavesOneEdge ==
    [][(ncalls' = ncalls + 1 /\ DistinctNodes(last') /\ last'.again)
       => (last'.exc = "none" /\ EdgeCount(assocs', last') = 1)]_vars

(* C4, amended: a repeated create_associaton call on two distinct nodes never
   raises and adds no edge; it leaves exactly one such edge when the language
   accepts the field pair and none when the language rejects it. *)
C4_RepeatIsIdempotent ==
    [][(ncalls' = ncalls + 1 /\ DistinctNodes(last') /\ last'.again)
       => (/\ last'.exc = "none"
           /\ assocs' = assocs
           /\ EdgeCount(assocs', last') =
                 IF <<last'.s_field, last'.t_field>> \in rejects THEN 0 ELSE 1)]_vars

(* a second call with the same arguments has run and the edge is there once *)
C4_Witness ==
    /\ DistinctNodes(last)
    /\ last.again
    /\ last.exc = "none"
    /\ EdgeCount(assocs, last) = 1

(* C5: a create_object call with an asset type the catalog lacks returns
   nothing, raises nothing, creates no node, leaves both identity maps as they
   were and assigns no id to the entity. *)
C5_UnknownTypeFailsSoft ==
    [][(ncalls' = ncalls + 1 /\ UnknownType(last'))
       => (/\ last'.ret = NoId
           /\ last'.exc = "none"
           /\ objs' = objs
           /\ o2o' = o2o
           /\ o2p' = o2p
           /\ entId' = entId)]_vars

(* a call for an entity without id, with a type the catalog lacks, has
   returned nothing on a graph that already holds nodes *)
C5_Witness ==
    /\ UnknownType(last)
    /\ last.python_obj # NoEnt
    /\ IdOf(Cur, last.python_obj) = NoId
    /\ last.ret = NoId
    /\ Len(objs) > 0

-----------------------------------------------------------------------------
(* Properties of a run of _parse, under Spec *)

(* the create pass has returned *)
CreatePassDone == raised = "none" /\ pc > Len(CreatePass(mf))

(* the statement the last step executed *)
Done == plan[pc - 1]

(* the nodes bound to an entity of the given class and name *)
NodesNamed(class, name) ==
    {id \in DOMAIN o2p : o2p[id][1] = class /\ NameOf(o2p[id]) = name}

ItemClass(table) ==
    CASE table = "categories" -> "Category"
      [] table = "actions" -> "Action"
      [] table = "uris" -> "URI"

(* C2: the connect step of an API level whose node creation failed softly
   (its id is unset) creates no edge and raises nothing, so that the connect
   pass goes on. *)
C2_ConnectSkipsUncreated ==
    [][(/\ pc <= Len(plan)
        /\ plan[pc].h = "APILevelConnect"
        /\ IdOf(Cur, plan[pc].e) = NoId
        /\ pc' # pc \/ raised' # raised)
       => (raised' = "none" /\ assocs' = assocs /\ pc' = pc + 1)]_vars

(* C3: after the create pass, every category, action and URI name declared
   by the intent filters of the application has exactly one node, and every
   filter position that declared the name holds the entity with that node's
   id. *)
C3_OneNodePerName ==
    CreatePassDone =>
        \A fe \in DOMAIN flt : \A table \in {"categories", "actions", "uris"} :
            \A k \in DOMAIN flt[fe][table] :
                LET name == NameOf(InitialFilters(mf)[fe][table][k])
                    nodes == NodesNamed(ItemClass(table), name)
                IN  /\ Cardinality(nodes) = 1
                    /\ IdOf(Cur, flt[fe][table][k]) \in nodes

(* the create pass is over and two filters of different components declared
   the same category, which both now hold as one entity *)
C3_Witness ==
    /\ CreatePassDone
    /\ \E fe \in DOMAIN flt, ge \in DOMAIN flt :
          /\ fe[2] # ge[2]
          /\ \E k \in DOMAIN flt[fe].categories, j \in DOMAIN flt[ge].categories :
                /\ flt[fe].categories[k] = flt[ge].categories[j]
                /\ IdOf(Cur, flt[fe].categories[k]) # NoId

(* C6: no node is requested from the sink once an edge has been requested,
   and every edge request comes after the create pass has returned. *)
C6_CreateBeforeConnect ==
    [][/\ nodeReq' > nodeReq => edgeReq' = 0
       /\ edgeReq' > edgeReq => pc > Len(CreatePass(mf))]_vars

(* nodes have been requested, then edges *)
C6_Witness == nodeReq > 0 /\ edgeReq > 0 /\ Len(assocs) > 0

(* C7: an id, once given to an entity, never changes, and no entity is
   handed to create_object more than once. *)
C7_IdAssignedOnce ==
    [][/\ \A e \in DOMAIN entId : e \in DOMAIN entId' /\ entId'[e] = entId[e]
       /\ \A e \in DOMAIN madeFor' : madeFor'[e] <= 1]_vars

(* a component got its id in the create pass and the connect pass is under way *)
C7_Witness ==
    /\ ComponentEnt(1) \in DOMAIN entId
    /\ madeFor[ComponentEnt(1)] = 1
    /\ edgeReq > 0

(* C8: a run over a descriptor with a package name and an application
   element raises nothing; stated here for the descriptors whose application
   is named and which hold no permission group or tree. *)
C8_RunCompletes ==
    (/\ mf.app_name # NoName
     /\ Len(mf.permission_groups) + Len(mf.permission_trees) = 0)
    => raised = "none"

(* the names referred to on demand before the statement at position k *)
Referenced(k) == {plan[j].nm : j \in {i \in 1..(k - 1) : plan[i].op = "on_demand"}}

(* C9: the first on-demand reference to a permission name creates exactly
   one node and caches it under that name; every later reference to the name
   creates no node and leaves the cache as it was. *)
C9_OnDemandOncePerName ==
    [][(pc <= Len(plan) /\ plan[pc].op = "on_demand" /\ pc' = pc + 1)
       => IF plan[pc].nm \in Referenced(pc)
          THEN objs' = objs /\ perms' = perms
          ELSE /\ Len(objs') = Len(objs) + 1
               /\ SubSeq(objs', 1, Len(objs)) = objs
               /\ objs'[Len(objs')].name = plan[pc].nm
               /\ perms' = Put(perms, plan[pc].nm, Len(objs'))]_vars

(* a later reference to a cached name has just been executed *)
C9_Witness ==
    /\ raised = "none"
    /\ pc > 1
    /\ Done.op = "on_demand"
    /\ Done.nm \in Referenced(pc - 1)
    /\ Done.nm \in DOMAIN perms

(* the nodes standing for the permission name: those of its <permission>
   tags and the one synthesized on demand *)
PermissionNodes(name) ==
    NodesNamed("Permission", name)
    \cup (IF name \in DOMAIN perms THEN {perms[name]} ELSE {})

(* C10: after the create pass, a permission name that a <permission> tag
   declares and a uses-permission refers to has exactly one node. *)
C10_DeclaredNotSynthesized ==
    CreatePassDone =>
        \A name \in Range(mf.permissions) \cap Range(mf.uses_permissions) :
            Cardinality(PermissionNodes(name)) = 1

-----------------------------------------------------------------------------
(* The file system the create pass registers, under Spec *)

(* the directories a directory lies under, from the volume root down, and itself *)
Descent(d) == [k \in 1..(Len(d) - 2) |-> SubSeq(d, 1, k + 2)]

(* the names from the volume root down, joined by "/" after the root's prefix:
   "/" on the internal volume, "sdcard" on the external one *)
RECURSIVE Slashed(_)
Slashed(names) ==
    IF Len(names) = 0 THEN ""
    ELSE IF Len(names) = 1 THEN names[1]
    ELSE names[1] \o "/" \o Slashed(Tail(names))

AbsolutePath(d) ==
    LET names == [k \in 1..Len(Descent(d)) |-> Last(Descent(d)[k])]
    IN  (IF d[2] = "int" THEN "/" ELSE "sdcard/") \o Slashed(names)

(* the directories below a volume root that have a node *)
CreatedDirectories == {d \in DOMAIN entId : d[1] = "Directory" /\ Len(d) > 2}

(* C13: a directory is registered under its absolute path, the names from
   the volume root down to it: /data/data/Dialer/cache on the internal
   volume, sdcard/Android/data on the external one. *)
C13_DirectoryPathFromRoot ==
    (raised = "none" /\ pc > 1) =>
        \A d \in CreatedDirectories :
            AbsolutePath(d) \in DOMAIN paths /\ paths[AbsolutePath(d)] = entId[d]

-----------------------------------------------------------------------------
(* The components at the end of a run of _parse, under Spec *)

(* _parse has returned or an exception has left it *)
Ended == raised # "none" \/ pc > Len(plan)

(* the create pass returned and the run is over *)
EndedAfterCreate == Ended /\ pc > Len(CreatePass(mf))

(* the node of an entity, NoId when it has none *)
NodeOf(e) == IF e \in DOMAIN entId /\ entId[e] \in DOMAIN o2o THEN o2o[entId[e]] ELSE NoId

(* the value the connect pass set on the defense of the entity's node, in
   tenths; -1 when it set none *)
Defense(e, name) ==
    IF <<NodeOf(e), name>> \in DOMAIN defs THEN defs[<<NodeOf(e), name>>] ELSE -1

PrivateServices ==
    {c \in 1..Len(Components(mf)) :
        Components(mf)[c].kind = "Service" /\ Components(mf)[c].process # NoName}

(* C12: a Service that declares a private process (":worker") has a UID node
   of its own after the create pass, distinct from the application's UID
   node, and after the connect pass that node and the Service's node are
   joined by the process edge. *)
C12_PrivateProcessUid ==
    EndedAfterCreate =>
        \A c \in PrivateServices :
            /\ NodeOf(UIDEnt(ComponentEnt(c))) # NoId
            /\ NodeOf(UIDEnt(ComponentEnt(c))) # NodeOf(UIDEnt(ApplicationEnt))
            /\ HasEdge(assocs, NodeOf(UIDEnt(ComponentEnt(c))), "component",
                       NodeOf(ComponentEnt(c)), "process")

(* C17: after the connect pass every component's node has notEnabled = 1.0
   exactly when the component is disabled (0.0 otherwise), notExported = 1.0
   exactly when it is not exported, and a Service's node has isolatedProcess
   = 1.0 exactly when the service declares it. *)
C17_ComponentDefenses ==
    EndedAfterCreate =>
        \A c \in 1..Len(Components(mf)) :
            LET comp == Components(mf)[c] IN
            /\ Defense(ComponentEnt(c), "notEnabled") = (IF comp.enabled THEN 0 ELSE 10)
            /\ Defense(ComponentEnt(c), "notExported") = (IF comp.exported THEN 0 ELSE 10)
            /\ comp.kind = "Service" =>
                   Defense(ComponentEnt(c), "isolatedProcess")
                   = (IF comp.isolatedProcess THEN 10 ELSE 0)

-----------------------------------------------------------------------------
(* The end-to-end scenario, under Spec *)

(* package com.example.app, one exported activity with one intent filter:
   action VIEW, category DEFAULT, data scheme=http host=example.com *)
ScenarioManifest == ManifestOf(AppName, ApiLevels, <<>>, <<>>, NoContainers, <<ActivityMain>>)

(* the nodes bound to an entity of the class *)
NodesOf(class) == {id \in DOMAIN o2p : o2p[id][1] = class}

(* some edge joins a node of the one class and a node of the other *)
Joined(classA, classB) ==
    \E k \in DOMAIN assocs :
        {assocs[k].s, assocs[k].t} \in {{a, b} : a \in NodesOf(classA), b \in NodesOf(classB)}

(* C11: the scenario manifest compiles to one Application node, one Activity
   node with notExported = 0.0, one IntentFilter node, one Action node of type
   ACTION_VIEW, one Category node of type CategoryBrowsable, exactly one URI
   node, named http://example.com/, and the edges Activity-IntentFilter,
   IntentFilter-Action, IntentFilter-Category and IntentFilter-URI. *)
C11_EndToEndScenario ==
    (mf = ScenarioManifest /\ Ended) =>
        /\ Cardinality(NodesOf("Application")) = 1
        /\ Cardinality(NodesOf("Component")) = 1
        /\ \A id \in NodesOf("Component") :
               objs[id].asset_type = "Activity" /\ Defense(o2p[id], "notExported") = 0
        /\ Cardinality(NodesOf("IntentFilter")) = 1
        /\ Cardinality(NodesOf("Action")) = 1
        /\ \A id \in NodesOf("Action") : objs[id].asset_type = "ACTION_VIEW"
        /\ Cardinality(NodesOf("Category")) = 1
        /\ \A id \in NodesOf("Category") : objs[id].asset_type = "CategoryBrowsable"
        /\ Cardinality(NodesOf("URI")) = 1
        /\ \A id \in NodesOf("URI") : NameOf(o2p[id]) = <<"http://example", "com/">>
        /\ Joined("Component", "IntentFilter")
        /\ Joined("IntentFilter", "Action")
        /\ Joined("IntentFilter", "Category")
        /\ Joined("IntentFilter", "URI")

-----------------------------------------------------------------------------
(* Specification SpecFn: the functions of the program that take a value and
   return one, each applied once to an input drawn at the start *)

(* get_attributes (utilities/xml.py): an attribute's key and raw value are the
   sequences of their characters *)
Digits == {"0", "1", "2", "3", "4", "5", "6", "7", "8", "9"}

(* str.isnumeric *)
IsNumeric(v) == Len(v) > 0 /\ \A i \in 1..Len(v) : v[i] \in Digits

(* int(attrib) *)
RECURSIVE IntOf(_)
IntOf(v) ==
    IF Len(v) = 0 THEN 0
    ELSE 10 * IntOf(SubSeq(v, 1, Len(v) - 1))
         + (CHOOSE n \in 0..9 : ToString(n) = Last(v))

SkipSign(v, i) == IF i <= Len(v) /\ v[i] \in {"+", "-"} THEN i + 1 ELSE i

RECURSIVE SkipDigits(_, _)
SkipDigits(v, i) == IF i <= Len(v) /\ v[i] \in Digits THEN SkipDigits(v, i + 1) ELSE i

(* float(attrib) returns: a signed decimal with an optional exponent, or a
   signed nan or inf *)
ParsesAsFloat(v) ==
    LET a == SkipSign(v, 1)
        b == SkipDigits(v, a)
        c == IF b <= Len(v) /\ v[b] = "." THEN SkipDigits(v, b + 1) ELSE b
        mantissa == b > a \/ c > b + 1
        d == IF c <= Len(v) /\ v[c] \in {"e", "E"}
             THEN LET f == SkipSign(v, c + 1)
                  IN  IF SkipDigits(v, f) > f THEN SkipDigits(v, f) ELSE 0
             ELSE c
    IN  \/ mantissa /\ d = Len(v) + 1
        \/ SubSeq(v, a, Len(v)) \in {<<"n", "a", "n">>, <<"i", "n", "f">>}

(* key.split("}")[1], the key itself on IndexError *)
CleanedKey(key) ==
    LET closes == {i \in 1..Len(key) : key[i] = "}"}
        first == CHOOSE i \in closes : \A j \in closes : i <= j
        rest == {i \in closes : i > first}
        second == IF rest = {} THEN Len(key) + 1
                  ELSE CHOOSE i \in rest : \A j \in rest : i <= j
    IN  IF closes = {} THEN key ELSE SubSeq(key, first + 1, second - 1)

(* a value of attribs: its Python type and, by type, its text, number or truth value *)
Value(type, text, n, b) == [type |-> type, text |-> text, n |-> n, b |-> b]

(* get_attributes for one attribute of the tag *)
GetAttributes(key, attrib) ==
    LET cleaned == CleanedKey(key)
        str == Value("str", attrib, 0, FALSE)
    IN  [key |-> cleaned,
         value |-> IF IsNumeric(attrib) THEN Value("int", <<>>, IntOf(attrib), FALSE)
                   ELSE IF \E i \in 1..Len(cleaned) : cleaned[i] \in {"-", "."}
                        THEN IF ParsesAsFloat(attrib) THEN Value("float", attrib, 0, FALSE)
                             ELSE str
                   ELSE IF attrib = <<"f", "a", "l", "s", "e">> THEN Value("bool", <<>>, 0, FALSE)
                   ELSE IF attrib = <<"t", "r", "u", "e">> THEN Value("bool", <<>>, 0, TRUE)
                   ELSE str]

(* f"{uri}" of a URI object: the repr of the dataclass *)
UriRepr(name) == "URI(_id=None, _parent=None, _name='" \o Join(name) \o "')"

(* IntentFilter.print_partial_intent, the first set it returns *)
PrintPartialIntent(filter) ==
    LET none == <<NoName>>
        categories == IF Len(filter.categories) > 0 THEN filter.categories ELSE none
        uris == IF Len(filter.uris) > 0 THEN filter.uris ELSE none
    IN  {"-a " \o Join(action) \o " "
         \o (IF category # NoName THEN "-c " \o Join(category) ELSE "") \o " "
         \o (IF uri # NoName THEN "-d " \o UriRepr(uri) ELSE "www.example.com") :
            action \in Range(filter.actions), category \in Range(categories),
            uri \in Range(uris)}

(* Permission.create_scad_objects, lines 281-282: the key and the asset type *)
PermissionAssetType(name) ==
    [key |-> TrimAndroidPermission(name),
     asset_type |-> PermissionInLang(Join(TrimAndroidPermission(name)))]

(* the inputs *)
Optional(str) == {NoName, str}
DataInputs ==
    {DataFields(scheme, host, port, path, path_pattern, path_prefix, mime_type) :
        scheme \in Optional(<<"http">>), host \in Optional(<<"example", "com">>),
        port \in Optional(<<"8080">>), path \in Optional(<<"/a">>),
        path_pattern \in Optional(<<"/b", "*">>), path_prefix \in Optional(<<"/c">>),
        mime_type \in Optional(<<"image/png">>)}
FilterInputs ==
    {Filter(categories, actions, tags) :
        categories \in SeqsUpTo({CatDefault, CatLauncher}, 1),
        actions \in SeqsUpTo({ActView, ActMain}, 2),
        tags \in {<<>>, <<AttribsWeb>>, <<AttribsAny>>, <<AttribsWeb, AttribsAny>>}}
KeyInputs ==
    {<<"{", "n", "}", "a", "b">>, <<"a", "b">>, <<"{", "n", "}", "a", "-", "b">>,
     <<"{", "n", "}", "a", ".", "b">>, <<"a", "}", "b", "}", "c">>}
RawInputs ==
    {<<"t", "r", "u", "e">>, <<"f", "a", "l", "s", "e">>, <<"T", "r", "u", "e">>,
     <<"1", "5">>, <<"0">>, <<"1", ".", "5">>, <<"-", "1">>, <<".", "5">>, <<"1", "e", "3">>,
     <<"1", "e">>, <<"n", "a", "n">>, <<".">>, <<"a", "b">>, <<>>}
NameInputs ==
    {PermCamera, PermWrite, <<"CAMERA">>, <<"android", "permission">>,
     <<"com", "example", "android", "permission", "CAMERA">>,
     <<"android", "permission", "android", "permission", "CAMERA">>}

(* lists of one Data, and of two Data with different schemes and hosts *)
DataA == DataFields(<<"a">>, <<"x">>, NoName, NoName, NoName, NoName, NoName)
DataB == DataFields(<<"b">>, <<"y">>, NoName, NoName, NoName, NoName, NoName)
DataListInputs ==
    {<<d>> : d \in DataInputs}
    \cup {<<DataA, d>> : d \in {DataB, [DataB EXCEPT !.port = <<"80">>],
                                [DataB EXCEPT !.path = <<"/p">>],
                                [DataB EXCEPT !.mime_type = <<"image/png">>]}}


(* re.match(pattern, x) for the patterns a path attribute gives: a character
   stands for itself, "." for any character, and an atom followed by "*" for
   any number of repetitions; the match is anchored at the start of x only *)
ReMatch(pattern, x) ==
    LET RECURSIVE M(_, _)
        M(p, s) ==
            IF p = <<>> THEN TRUE
            ELSE IF Len(p) >= 2 /\ p[2] = "*"
                 THEN \/ M(SubSeq(p, 3, Len(p)), s)
                      \/ s # <<>> /\ p[1] \in {".", s[1]} /\ M(p, Tail(s))
                 ELSE s # <<>> /\ p[1] \in {".", s[1]} /\ M(Tail(p), Tail(s))
    IN  M(pattern, x)

(* path.replace("*", ".*") *)
StarToRegex(path) == Concat([i \in 1..Len(path) |-> IF path[i] = "*" THEN <<".", "*">> ELSE <<path[i]>>])

(* the characters of [a-zA-Z0-9] among those the inputs use *)
AlphaNumerics == {"d", "e", "f", "g", "t"}

(* re.match("\.[a-zA-Z0-9]+", pattern): anchored at the start of the pattern *)
LooksLikeFile(pattern) == Len(pattern) >= 2 /\ pattern[1] = "." /\ pattern[2] \in AlphaNumerics

(* min(potential_objects.keys(), key=len): the first of the shortest keys *)
ShortestMatch(keys) ==
    CHOOSE i \in DOMAIN keys :
        \A j \in DOMAIN keys : Len(keys[i]) < Len(keys[j]) \/ (Len(keys[i]) = Len(keys[j]) /\ i <= j)

(* PathPermission.connect_scad_objects.get_matching_paths over
   parser.filesystem.paths, a dict in insertion order *)
GetMatchingPaths(index, path) ==
    LET pattern == StarToRegex(path)
        potential_objects == SelectSeq(index, LAMBDA e : ReMatch(pattern, e.path))
        keys == [i \in DOMAIN potential_objects |-> potential_objects[i].path]
    IN  IF potential_objects = <<>> THEN <<>>
        ELSE IF ~LooksLikeFile(pattern)
             THEN <<potential_objects[ShortestMatch(keys)].node>>
             ELSE [i \in DOMAIN potential_objects |-> potential_objects[i].node]

(* path indexes: /d, /d/f.t, /d/g.t and /e, in two insertion orders *)
IndexedPaths ==
    <<[path |-> <<"/", "d">>, node |-> 1],
      [path |-> <<"/", "d", "/", "f", ".", "t">>, node |-> 2],
      [path |-> <<"/", "d", "/", "g", ".", "t">>, node |-> 3],
      [path |-> <<"/", "e">>, node |-> 4]>>
IndexInputs ==
    {IndexedPaths, <<IndexedPaths[4], IndexedPaths[3], IndexedPaths[2], IndexedPaths[1]>>}

(* /d, /d/*, *.t, /d/f.t, /x, .d, * and /d/*.t *)
PatternInputs ==
    {<<"/", "d">>, <<"/", "d", "/", "*">>, <<"*", ".", "t">>,
     <<"/", "d", "/", "f", ".", "t">>, <<"/", "x">>, <<".", "d">>, <<"*">>,
     <<"/", "d", "/", "*", ".", "t">>}


(* IntentFilter.print_partial_intent, the second set it returns, for a filter
   without URIs: the loop passes uri = None to browser_intent, whose scheme,
   host_uri_path and mime_type are then empty *)
ChromeIntents(filter, package, component) ==
    {"intent:///#Intent;package=" \o package \o ";action=" \o Join(action)
     \o ";component=" \o component \o ";"
     \o "S.browser_fallback_url=https%3A%2F%2Fgoogle.com;end;" :
        action \in Range(filter.actions)}

(* total.union(more) as a statement: set.union returns a new set and leaves
   total as it was, and the statement drops what it returns *)
UnionStatement(total, more) == total

(* the loop of BaseComponent.get_intents over the filters; parts[i] is the set
   print_partial_intent returned for the i-th filter *)
RECURSIVE Accumulate(_, _)
Accumulate(parts, total) ==
    IF Len(parts) = 0 THEN total
    ELSE Accumulate(Tail(parts), UnionStatement(total, Head(parts)))

(* Service._get_adb_intents: option_flags is empty *)
ServiceAdbIntents(partial_intents, package, name) ==
    LET list == SetToSeq(partial_intents)
    IN  [i \in DOMAIN list |->
            "adb shell am startservice " \o "" \o " " \o list[i] \o " -n " \o package
            \o "/" \o name]

(* BaseComponent.get_intents of a Service *)
GetIntents(service, package) ==
    LET name == Join(service.name)
        filters == service.intent_filters
        total_partial_adb_intents ==
            Accumulate([i \in DOMAIN filters |-> PrintPartialIntent(filters[i])], {})
        total_browser_intents ==
            Accumulate([i \in DOMAIN filters |-> ChromeIntents(filters[i], package, name)], {})
    IN  [adb |-> ServiceAdbIntents(total_partial_adb_intents, package, name),
         browser |-> SetToSeq(total_browser_intents)]

(* manifest_parent.package *)
PackageName == "com.example.app"

(* services with up to two filters, none with a <data> tag *)
ServiceInputs ==
    {Component("Service", <<"com", "example", "app", "Sync">>, NoName, NoName, filters, <<>>) :
        filters \in SeqsUpTo({Filter(<<CatDefault>>, <<ActView>>, <<>>),
                              Filter(<<>>, <<ActMain, ActView>>, <<>>),
                              Filter(<<CatLauncher>>, <<>>, <<>>)}, 2)}


ComponentKinds == {"Activity", "Service", "Receiver", "Provider"}

Pending == [fn |-> "", arg |-> <<>>, ret |-> <<>>, done |-> FALSE]

InitFn ==
    /\ InitParser
    /\ mf = NoManifest
    /\ flt = Empty
    /\ plan = <<>>
    /\ lacks \in {{}, LackableTypes}
    /\ rejects = {}
    /\ doc = Idle
    /\ col = Idle
    /\ \/ \E d \in DataInputs : call = [Pending EXCEPT !.fn = "Data", !.arg = d]
       \/ \E f \in FilterInputs :
             call = [Pending EXCEPT !.fn = "print_partial_intent", !.arg = f]
       \/ \E key \in KeyInputs, attrib \in RawInputs :
             call = [Pending EXCEPT !.fn = "get_attributes", !.arg = <<key, attrib>>]
       \/ \E name \in NameInputs : call = [Pending EXCEPT !.fn = "Permission", !.arg = name]
       \/ \E data \in DataListInputs :
             call = [Pending EXCEPT !.fn = "IntentFilter", !.arg = data]
       \/ \E index \in IndexInputs, path \in PatternInputs :
             call = [Pending EXCEPT !.fn = "get_matching_paths",
                                    !.arg = [index |-> index, path |-> path]]
       \/ \E service \in ServiceInputs :
             call = [Pending EXCEPT !.fn = "get_intents", !.arg = service]
       \/ \E kind \in ComponentKinds, exported \in {<<>>, <<TRUE>>, <<FALSE>>},
             has_filters \in BOOLEAN :
             call = [Pending EXCEPT !.fn = "from_xml",
                        !.arg = [kind |-> kind, exported |-> exported,
                                 has_filters |-> has_filters]]

(* the function returns ret *)
Returns(ret) ==
    /\ ~call.done
    /\ call' = [call EXCEPT !.ret = ret, !.done = TRUE]
    /\ Commit(Cur)
    /\ UNCHANGED <<mf, lacks, rejects, plan, pc, ncalls, doc, col>>

DataConstruct == call.fn = "Data" /\ Returns(DataPostInit(call.arg))
FilterPrint == call.fn = "print_partial_intent" /\ Returns(PrintPartialIntent(call.arg))
AttributeParse ==
    call.fn = "get_attributes" /\ Returns(GetAttributes(call.arg[1], call.arg[2]))
PermissionResolve == call.fn = "Permission" /\ Returns(PermissionAssetType(call.arg))

(* IntentFilter(data=...): the Data objects as constructed and the names of
   the URIs __post_init__ derives from them *)
FilterConstruct ==
    /\ call.fn = "IntentFilter"
    /\ LET data == [i \in 1..Len(call.arg) |-> DataPostInit(call.arg[i])]
       IN  Returns([data |-> data, uris |-> CreateUris(data)])


PathResolve ==
    /\ call.fn = "get_matching_paths"
    /\ Returns(GetMatchingPaths(call.arg.index, call.arg.path))


IntentsList ==
    /\ call.fn = "get_intents"
    /\ Returns(GetIntents(call.arg, PackageName))


ComponentFromXml ==
    /\ call.fn = "from_xml"
    /\ Returns(ComponentExported(call.arg.kind, call.arg.exported, call.arg.has_filters))

NextFn ==
    \/ DataConstruct
    \/ FilterPrint
    \/ AttributeParse
    \/ PermissionResolve
    \/ FilterConstruct
    \/ PathResolve
    \/ IntentsList
    \/ ComponentFromXml

SpecFn == InitFn /\ [][NextFn]_vars

-----------------------------------------------------------------------------
(* Properties of the functions, under SpecFn *)

Returned(fn) == call.fn = fn /\ call.done

ContentAndFile == << <<"content">>, <<"file">> >>

(* C15: a Data constructed without a scheme has the scheme * when it has no
   mime type and the pair of content and file when it has one; its host is
   the wildcard or absent, its port is absent, and so are its path, its path
   pattern and its path prefix, whatever was given for them. *)
C15_SchemelessData ==
    (Returned("Data") /\ NoScheme(call.arg)) =>
        /\ call.ret.scheme = (IF Truthy(call.arg.mime_type) THEN ContentAndFile
                              ELSE << <<"*">> >>)
        /\ call.ret.host = (IF Truthy(call.arg.host) THEN <<"*">> ELSE NoName)
        /\ call.ret.port = NoName
        /\ call.ret.path = NoName
        /\ call.ret.path_pattern = NoName
        /\ call.ret.path_prefix = NoName

(* a Data given everything but a scheme has been constructed *)
C15_Witness ==
    /\ Returned("Data")
    /\ NoScheme(call.arg)
    /\ \A given \in {call.arg.host, call.arg.port, call.arg.path, call.arg.path_pattern,
                     call.arg.path_prefix, call.arg.mime_type} : Truthy(given)
    /\ call.ret.scheme = ContentAndFile
    /\ call.ret.host = <<"*">>

(* -a <action> [-c <category>] [-d <uri>] *)
Invocation(action, category, uri) ==
    "-a " \o Join(action)
    \o (IF category # NoName THEN " -c " \o Join(category) ELSE "")
    \o (IF uri # NoName THEN " -d " \o Join(uri) ELSE "")

OrNone(seq) == IF Len(seq) > 0 THEN Range(seq) ELSE {NoName}

(* C16: the invocation strings of an intent filter are the cross product of
   its actions, its categories (or none) and its URIs (or none), each "-a
   <action>", then "-c <category>" only with a category, then "-d <uri>" only
   with a URI; without URIs the strings have no URI part. *)
C16_InvocationStrings ==
    Returned("print_partial_intent") =>
        call.ret = {Invocation(action, category, uri) :
                       action \in Range(call.arg.actions),
                       category \in OrNone(call.arg.categories),
                       uri \in OrNone(call.arg.uris)}

(* C19: get_attributes stores, under the key without its namespace, a
   boolean exactly for the values true and false, whatever the key (a key
   with - or . included), an integer exactly for a value of digits only, a
   float exactly when the key holds - or . and the value parses as a float,
   and the unchanged string otherwise. *)
C19_AttributeTypes ==
    Returned("get_attributes") =>
        LET key == call.arg[1]
            attrib == call.arg[2]
            value == call.ret.value
        IN  /\ call.ret.key = CleanedKey(key)
            /\ value.type = "bool" <=> attrib \in {<<"t", "r", "u", "e">>,
                                                  <<"f", "a", "l", "s", "e">>}
            /\ value.type = "bool" => (value.b <=> attrib = <<"t", "r", "u", "e">>)
            /\ value.type = "int" <=> IsNumeric(attrib)
            /\ value.type = "float" <=>
                  /\ ~IsNumeric(attrib)
                  /\ \E i \in 1..Len(call.ret.key) : call.ret.key[i] \in {"-", "."}
                  /\ ParsesAsFloat(attrib)
            /\ value.type = "str" => value.text = attrib

StartsWithPrefix(name) == Len(name) >= 3 /\ name[1] = "android" /\ name[2] = "permission"

(* C20: the lookup key of a permission is its name without a leading
   android.permission. and the name itself when it does not start so, the
   text after the start never being altered; the asset type is the key when
   the catalog knows it and Permission otherwise. *)
C20_PermissionKey ==
    Returned("Permission") =>
        LET key == IF StartsWithPrefix(call.arg) THEN SubSeq(call.arg, 3, Len(call.arg))
                   ELSE call.arg
        IN  /\ call.ret.key = key
            /\ call.ret.asset_type = (IF InLang(Join(key)) THEN Join(key) ELSE "Permission")

-----------------------------------------------------------------------------
(* Specification SpecCollect: collect (main.py 177-190) over one document *)

NoSdk == <<>>
ExtDataDir == ExtRoot \o <<"Android", "data">>

(* FileSystem.__post_init__: the two roots, fill_internal_volume, fill_external_volume *)
BaseDirectories ==
    {IntRoot, ExtRoot, IntRoot \o <<"data">>, IntRoot \o <<"data", "media">>, IntDataDir,
     ExtDataDir}
    \cup {ExtRoot \o <<ExternalTopDirs[i]>> : i \in 1..Len(ExternalTopDirs)}

(* the documents: <uses-sdk> is absent or gives each of android:minSdkVersion
   and android:targetSdkVersion or omits it; <application> is absent, has no
   child element, or has components, and asks for legacy external storage or not *)
SdkAttribs == [min : {NoSdk, <<29>>}, target : {NoSdk, <<30>>}]
Documents ==
    [uses_sdk : {NoSdk} \cup SdkAttribs, application : {"absent", "empty", "present"},
     legacy : BOOLEAN]

(* the dict d after d[x.path] = x for the directories in order *)
RECURSIVE ByPath(_, _)
ByPath(d, dirs) ==
    IF Len(dirs) = 0 THEN d ELSE ByPath(Put(d, PathOf(Head(dirs)), Head(dirs)), Tail(dirs))

(* FileSystem.create_app_storage *)
CreateAppStorage(c, class, name, legacy) ==
    LET ext == ExtDataDir \o <<name>>
        exts == <<ext, ext \o <<"cache">>, ext \o <<"files">> >>
        int == IntDataDir \o <<name>>
        ints == <<int>> \o [i \in 1..Len(AppDirs) |-> int \o <<AppDirs[i]>>]
        file(dir) == <<"File">> \o Tail(dir) \o <<"files", "dummy.txt">>
        regular == class = "Application"
    IN  [c EXCEPT
           !.scoped = IF regular /\ ~legacy THEN @ \cup {name} ELSE @,
           !.dirs = @ \cup Range(ints) \cup (IF regular THEN Range(exts) ELSE {}),
           !.files = @ \cup {file(int)} \cup (IF regular THEN {file(ext)} ELSE {}),
           !.external = IF regular THEN Put(@, name, ByPath(Empty, exts)) ELSE @,
           !.internal = Put(@, name, ByPath(Empty, ints))]

(* the classes that define create_app_storage *)
HasCreateAppStorage(class) == class = "FileSystem"

InitCollect ==
    /\ InitParser
    /\ mf = NoManifest
    /\ flt = Empty
    /\ plan = <<>>
    /\ lacks = {}
    /\ rejects = {}
    /\ call = Idle
    /\ doc \in Documents
    /\ col = [at |-> "filesystem", k |-> 1, dirs |-> {}, files |-> {}, scoped |-> {},
              internal |-> Empty, external |-> Empty, sdk |-> NoSdk, api_levels |-> <<>>,
              manifest |-> FALSE, raised |-> "none"]

Collected(c) ==
    /\ col' = c
    /\ Commit(Cur)
    /\ UNCHANGED <<mf, lacks, rejects, plan, pc, ncalls, doc, call>>

Aborted(exc) == Collected([col EXCEPT !.raised = exc, !.at = "ended"])

(* main.py 179: filesystem.collect_filesystem() *)
CollectFilesystem ==
    /\ col.at = "filesystem"
    /\ Collected([col EXCEPT !.dirs = BaseDirectories, !.at = "device"])

(* main.py 181: hardware.Device() *)
CollectDevice ==
    /\ col.at = "device"
    /\ Collected([col EXCEPT !.at = "storage"])

(* main.py 182-183: one iteration of the loop over the system apps *)
CollectAppStorage ==
    /\ col.at = "storage"
    /\ Collected([CreateAppStorage(col, "SystemApp", SystemAppNames[col.k], FALSE) EXCEPT
                    !.k = @ + 1,
                    !.at = IF col.k = Len(SystemAppNames) THEN "sdk" ELSE "storage"])

(* manifest.py 192, get_sdk_versions and the unpacking of its result into
   three names: without <uses-sdk> it returns a pair *)
GetSdkVersions ==
    /\ col.at = "sdk"
    /\ IF doc.uses_sdk = NoSdk THEN Aborted("ValueError")
       ELSE LET min_sdk == IF doc.uses_sdk.min = NoSdk THEN MIN_SDK_VERSION
                           ELSE doc.uses_sdk.min[1]
                target_sdk == IF doc.uses_sdk.target = NoSdk THEN MAX_SDK_VERSION
                              ELSE doc.uses_sdk.target[1]
            IN  Collected([col EXCEPT
                             !.sdk = [min |-> min_sdk, target |-> target_sdk],
                             !.api_levels = [i \in 1..(target_sdk + 1 - min_sdk) |->
                                               min_sdk + i - 1],
                             !.at = "application"])

(* manifest.py 194-204, Application.collect_applications: an element without
   children is false *)
CollectApplications ==
    /\ col.at = "application"
    /\ IF doc.application # "present" THEN Aborted("ComponentNotFound")
       ELSE Collected([col EXCEPT !.at = "manifest"])

(* manifest.py 205-217, Manifest(...) and its __post_init__, whose last line
   calls create_app_storage on the Application; main.py 187-190 follow it *)
ManifestPostInit ==
    /\ col.at = "manifest"
    /\ IF ~HasCreateAppStorage("Application") THEN Aborted("AttributeError")
       ELSE Collected([CreateAppStorage(
                           CreateAppStorage([col EXCEPT !.manifest = TRUE], "Application",
                                            Join(AppName), doc.legacy),
                           "MaliciousApp", "MaliciousApp", FALSE)
                       EXCEPT !.at = "ended"])

NextCollect ==
    \/ CollectFilesystem
    \/ CollectDevice
    \/ CollectAppStorage
    \/ GetSdkVersions
    \/ CollectApplications
    \/ ManifestPostInit

SpecCollect == InitCollect /\ [][NextCollect]_vars

-----------------------------------------------------------------------------
(* Properties of collect, under SpecCollect *)

CollectEnded == col.at = "ended"

(* the app owns the directory under the data directory with the given
   sub-directories, and the directory files holds the placeholder file *)
Owns(owned, name, dataDir, subs) ==
    /\ name \in DOMAIN owned
    /\ {dataDir \o <<name>>} \cup {dataDir \o <<name, subs[i]>> : i \in 1..Len(subs)}
       \subseteq Range(owned[name]) \cap col.dirs
    /\ <<"File">> \o Tail(dataDir) \o <<name, "files", "dummy.txt">> \in col.files

(* C14: after collection every application (the manifest's Application,
   each system app, the malicious app) owns an internal app directory with
   cache, files, databases and shared_prefs and a placeholder file; the
   manifest's Application also owns an external app directory with cache and
   files, and a ScopedStorage marker is registered under its name exactly when
   it does not request legacy external storage. *)
C14_EveryAppHasStorage ==
    (CollectEnded /\ doc.application = "present") =>
        /\ \A name \in Range(SystemAppNames) \cup {"MaliciousApp", Join(AppName)} :
               Owns(col.internal, name, IntDataDir, AppDirs)
        /\ Owns(col.external, Join(AppName), ExtDataDir, <<"cache", "files">>)
        /\ Join(AppName) \in col.scoped <=> ~doc.legacy

(* C18: for a document without uses-sdk, or with one that omits
   minSdkVersion or targetSdkVersion, the manifest is constructed and the
   level that is not given is the configured minimum, respectively maximum. *)
C18_SdkDefaults ==
    (/\ CollectEnded
     /\ doc.application = "present"
     /\ doc.uses_sdk = NoSdk \/ NoSdk \in {doc.uses_sdk.min, doc.uses_sdk.target})
    => /\ col.manifest
       /\ col.sdk # NoSdk
       /\ col.sdk.min = (IF doc.uses_sdk = NoSdk \/ doc.uses_sdk.min = NoSdk
                         THEN MIN_SDK_VERSION ELSE doc.uses_sdk.min[1])
       /\ col.sdk.target = (IF doc.uses_sdk = NoSdk \/ doc.uses_sdk.target = NoSdk
                            THEN MAX_SDK_VERSION ELSE doc.uses_sdk.target[1])


-----------------------------------------------------------------------------
(* Properties of the URIs of an intent filter, under SpecFn *)

(* the port of a declaration, and no port when no declaration has one *)
PortsOrNone(data) ==
    LET ports == {data[i].port : i \in {j \in 1..Len(data) : Truthy(data[j].port)}}
    IN  IF ports = {} THEN {NoName} ELSE ports

(* C21: the URIs of a filter with several Data hold a URI, as get_uris
   writes it, for every combination of a scheme, a host, a port (none when no
   Data has one) and the paths of a Data, each taken from some Data of the
   filter: scheme a, host x with scheme b, host y give a://x, a://y, b://x and
   b://y. *)
C21_UrisAreCrossProduct ==
    (Returned("IntentFilter") /\ Len(call.arg) > 1) =>
        \A s \in 1..Len(call.arg), h \in 1..Len(call.arg), p \in 1..Len(call.arg) :
            \A port \in PortsOrNone(call.ret.data) :
                GetUris([call.ret.data[p] EXCEPT !.scheme = call.ret.data[s].scheme,
                                                 !.host = call.ret.data[h].host,
                                                 !.port = port])
                \subseteq Range(call.ret.uris)

(* <scheme>:// and the -t suffix of a mime type *)
SchemeOnly(d) ==
    {CatAll(<<scheme, <<"://">>,
              IF Truthy(d.mime_type) THEN Cat(<<" -t ">>, d.mime_type) ELSE <<"">> >>) :
        scheme \in Range(d.scheme)}

(* C22: a Data constructed with a scheme and without a host has the host *
   and no path, path pattern or path prefix, and each of its URIs is
   <scheme>://, followed by " -t <mimeType>" when it has a mime type. *)
C22_HostlessData ==
    (/\ Returned("IntentFilter")
     /\ Len(call.arg) = 1
     /\ ~NoScheme(call.arg[1])
     /\ ~Truthy(call.arg[1].host))
    => /\ call.ret.data[1].host = <<"*">>
       /\ ~Truthy(call.ret.data[1].path)
       /\ ~Truthy(call.ret.data[1].path_pattern)
       /\ ~Truthy(call.ret.data[1].path_prefix)
       /\ Range(call.ret.uris) = SchemeOnly(call.ret.data[1])


-----------------------------------------------------------------------------
(* Providers and their path permissions, under Spec *)

Providers == {c \in 1..Len(Components(mf)) : Components(mf)[c].kind = "Provider"}

(* Manifest.scad_permission_objs[name], NoId for a name the cache lacks *)
PermissionNode(name) == IF name \in DOMAIN perms THEN perms[name] ELSE NoId

(* the path permission's node and the node of the named permission are joined
   through the given fields, vacuously when the attribute is not declared *)
PermissionEdge(pp, name, sf, tf) ==
    name # NoName =>
        /\ PermissionNode(name) # NoId
        /\ HasEdge(assocs, NodeOf(pp), sf, PermissionNode(name), tf)

(* C23: after the connect pass every path permission of every provider is
   joined to the provider's node (pathPermissions / providers), and for each
   read and write permission it declares there is an edge from the path
   permission's node to the Permission node of that name (readPermission /
   readPathPermissions, writePermission / writePathPermissions). *)
C23_PathPermissionEdges ==
    EndedAfterCreate =>
        \A c \in Providers : \A k \in 1..Len(Components(mf)[c].path_permissions) :
            LET pp == Components(mf)[c].path_permissions[k] IN
            /\ HasEdge(assocs, NodeOf(ComponentEnt(c)), "pathPermissions",
                       NodeOf(PathPermissionEnt(c, k)), "providers")
            /\ PermissionEdge(PathPermissionEnt(c, k), pp.read,
                              "readPermission", "readPathPermissions")
            /\ PermissionEdge(PathPermissionEnt(c, k), pp.write,
                              "writePermission", "writePathPermissions")


-----------------------------------------------------------------------------
(* Path-permission resolution, under SpecFn *)

(* the pattern ends in a dot followed by alphanumerics *)
EndsInExtension(path) ==
    \E i \in 1..(Len(path) - 1) :
        /\ path[i] = "."
        /\ \A j \in (i + 1)..Len(path) : path[j] \in AlphaNumerics

(* the nodes of the indexed paths the pattern matches *)
Matching(index, path) ==
    {index[i].node : i \in {j \in DOMAIN index : ReMatch(StarToRegex(path), index[j].path)}}

(* C24: get_matching_paths returns no node for a pattern that matches no
   indexed path; for a pattern that matches some, it returns every matching
   node when the pattern ends in a file-extension-like token, and otherwise
   exactly one node, that of a shortest matching path. *)
C24_MatchingPaths ==
    Returned("get_matching_paths") =>
        LET index == call.arg.index
            path == call.arg.path
            matching == Matching(index, path)
        IN  IF matching = {} THEN call.ret = <<>>
            ELSE IF EndsInExtension(path) THEN Range(call.ret) = matching
            ELSE /\ Len(call.ret) = 1
                 /\ call.ret[1] \in matching
                 /\ \A i \in DOMAIN index :
                        index[i].node \in matching =>
                            \E j \in DOMAIN index :
                                index[j].node = call.ret[1] /\ Len(index[j].path) <= Len(index[i].path)


-----------------------------------------------------------------------------
(* Foreground service types, under Spec *)

(* ForegroundServiceType.connect_scad_objects: sys_features.get(token), NoEnt
   for a token the table lacks *)
SysFeatures(token) ==
    CASE token = "camera" -> <<"CameraModule">>
      [] token = "microphone" -> <<"Microphone">>
      [] token = "location" -> <<"GPS">>
      [] token = "phoneCall" -> SystemAppEnt("Dialer")
      [] OTHER -> NoEnt

Services == {c \in 1..Len(Components(mf)) : Components(mf)[c].kind = "Service"}

(* the field of the foreground-service-type node the token's edge leaves from *)
FeatureField(token) == IF token # "phoneCall" THEN "systemFeature" ELSE "dialer"

(* C25: after the connect pass, for every token of a service's
   foregroundServiceType list the service's foreground-service-type node is
   joined to the device node of the token exactly when the token is one of
   camera, microphone, location and phoneCall; no other token, the empty one
   included, has an edge. *)
C25_ForegroundServiceEdges ==
    EndedAfterCreate =>
        \A c \in Services :
            LET tokens == Components(mf)[c].foreground_service_types IN
            /\ \A i \in 1..Len(tokens) :
                   SysFeatures(tokens[i]) # NoEnt =>
                       HasEdge(assocs, NodeOf(FstEnt(c)), FeatureField(tokens[i]),
                               NodeOf(SysFeatures(tokens[i])), "serviceTypes")
            /\ \A k \in DOMAIN assocs :
                   (assocs[k].s = NodeOf(FstEnt(c)) /\ assocs[k].tf = "serviceTypes") =>
                       \E i \in 1..Len(tokens) :
                           /\ SysFeatures(tokens[i]) # NoEnt
                           /\ assocs[k].t = NodeOf(SysFeatures(tokens[i]))


-----------------------------------------------------------------------------
(* The intents that reach a component, under SpecFn *)

(* C26: get_intents of a Service returns, as its browser list, the union over
   the service's filters of the browser strings of print_partial_intent, and
   as its adb list one "adb shell am startservice" string for each partial
   intent string in the union over the filters; so a Service with a filter
   that declares an action gets a non-empty result. *)
C26_GetIntents ==
    Returned("get_intents") =>
        LET service == call.arg
            package == PackageName
            filters == Range(service.intent_filters)
            partial == UNION {PrintPartialIntent(f) : f \in filters}
            chrome == UNION {ChromeIntents(f, package, Join(service.name)) : f \in filters}
        IN  /\ Range(call.ret.browser) = chrome
            /\ Range(call.ret.adb)
               = Range(ServiceAdbIntents(partial, package, Join(service.name)))
            /\ Len(call.ret.adb) = Cardinality(partial)
            /\ (\E f \in filters : Len(f.actions) > 0) =>
                   Len(call.ret.adb) > 0 /\ Len(call.ret.browser) > 0


-----------------------------------------------------------------------------
(* The permission cache at the connect pass, under Spec *)

(* the names the connect handlers index Manifest.scad_permission_objs with:
   each uses-permission name (Manifest.connect_scad_objects), each component's
   permission (BaseComponent.connect_scad_objects), each provider's read and
   write permission (Provider.connect_scad_objects); the descriptors'
   <application> declares no permission *)
LookedUp(m) ==
    (Range(m.uses_permissions)
     \cup {Components(m)[c].permission : c \in 1..Len(Components(m))}
     \cup {Components(m)[c].read_permission : c \in 1..Len(Components(m))}
     \cup {Components(m)[c].write_permission : c \in 1..Len(Components(m))})
    \ {NoName}

(* C27: when the create pass has returned, every permission name the connect
   handlers look up in the manifest's permission cache is a key of the cache. *)
C27_LookupsRegistered ==
    EndedAfterCreate => \A name \in LookedUp(mf) : name \in DOMAIN perms


-----------------------------------------------------------------------------
(* The path index, under Spec *)

(* the directories and files that have a node *)
Indexed == {e \in DOMAIN entId : e[1] \in {"Directory", "File"}}

(* C28: when the create pass has returned, any two distinct directories or
   files have distinct paths, and the path index holds one entry for each of
   them, the entry of its own node. *)
C28_PathIndexInjective ==
    EndedAfterCreate =>
        /\ \A a, b \in Indexed : a # b => PathOf(a) # PathOf(b)
        /\ \A e \in Indexed : PathOf(e) \in DOMAIN paths /\ paths[PathOf(e)] = entId[e]
        /\ Cardinality(DOMAIN paths) = Cardinality(Indexed)


-----------------------------------------------------------------------------
(* The exported attribute, under SpecFn *)

(* C29: a component whose tag declares exported is modelled with the declared
   value, whatever its kind and whether or not it has intent filters. *)
C29_DeclaredExportedKept ==
    (Returned("from_xml") /\ call.arg.exported # <<>>) =>
        call.ret = call.arg.exported[1]


-----------------------------------------------------------------------------
(* The identity maps, under Spec *)

(* C30: in every state of the create and connect passes the two identity
   maps agree with the entities: every key of scad_id_to_python_obj is a key
   of scad_id_to_scad_obj, the entity stored under an id has that id, the node
   stored under an id has that id, and every entity with an id is stored in
   scad_id_to_python_obj under it. *)
C30_IdentityMapsAgree ==
    /\ DOMAIN o2p \subseteq DOMAIN o2o
    /\ \A k \in DOMAIN o2p : o2p[k] \in DOMAIN entId /\ entId[o2p[k]] = k
    /\ \A k \in DOMAIN o2o : o2o[k] = k
    /\ \A e \in DOMAIN entId : entId[e] \in DOMAIN o2p /\ o2p[entId[e]] = e

(* the connect pass is under way, entities are registered, and some node (an
   on-demand permission) has no entity *)
C30_Witness ==
    /\ pc > Len(CreatePass(mf))
    /\ DOMAIN o2p # {}
    /\ DOMAIN o2o # DOMAIN o2p

====
